---- MODULE Spec2Model ----
(***************************************************************************)
(* Model of the protothread framework of pt-test:                          *)
(*   framework/pt_thread.h      PTEvent, PTEventQueue, PTThread,           *)
(*                              PTScheduler                                *)
(*   framework/protothreads/pt.h (stored as unnamed/part_005)              *)
(*                              PT_INIT, PT_BEGIN, PT_END, PT_WAIT_UNTIL,  *)
(*                              PT_YIELD, PT_EXIT                          *)
(*   framework/protothreads/pt-sem.h                                       *)
(*                              PT_SEM_INIT, PT_SEM_WAIT, PT_SEM_SIGNAL    *)
(*   simple_threads.h (stored as unnamed/part_006)                         *)
(*                              SimpleThread, SimpleScheduler              *)
(*   pt-test-simple.cpp, pt-test-full.cpp                                  *)
(*                              the threads of the two programs            *)
(***************************************************************************)
EXTENDS Integers, Sequences, FiniteSets, TLC

(***************************************************************************)
(* Bounds of the model.                                                    *)
(***************************************************************************)
\* the clock stops here: at most MaxClock events are ever constructed
MaxClock == 35
\* clear() is called at most MaxClears times in one behaviour
MaxClears == 1
\* the cooperative context calls push() at most MaxCoopPushes times while
\* interrupt handlers push as well
MaxCoopPushes == 1
\* while threads run, the clock advances at most to MaxTime
MaxTime == 2
\* execute() is called directly on an active thread only while its run counter
\* is below MaxRuns, or below MaxSchedRuns where a scheduler runs it as well
MaxRuns == 3
MaxSchedRuns == 1
\* addThread() is called only while fewer than MaxRegistered threads are
\* registered
MaxRegistered == 3
\* runOnce() is called at most MaxPasses times in one behaviour
MaxPasses == 1
\* under run() the tick counter counts up to MaxTicks and then starts again
\* at 0
MaxTicks == 2

\* a body that uses the semaphore is invoked only while the counter is not
\* above MaxSem
MaxSem == 2
\* SimpleScheduler::addThread is called only while fewer than MaxSimple entries
\* are registered
MaxSimple == 2
\* sleep_ms(1) is called at most MaxSleeps times
MaxSleeps == 2
\* postEvent is called at most MaxPosts times
MaxPosts == 3
\* the main loop of pt-test-simple calls runOnce() at most MaxDemoPasses times
MaxDemoPasses == 60

(***************************************************************************)
(* Program constants.                                                      *)
(***************************************************************************)
MAX_EVENTS == 32

(***************************************************************************)
(* size_t: an unsigned 32-bit integer.  A value v < 2^31 is kept as v, a   *)
(* value v >= 2^31 as v - 2^32 (the same bit pattern read as signed), so   *)
(* that SIZE_MAX is -1 and 0 - 1 = SIZE_MAX, SIZE_MAX + 1 = 0.             *)
(***************************************************************************)
\* x + 1 on size_t
SizeInc(x) == IF x = -1 THEN 0 ELSE x + 1

\* an x - 1 that stops at 0
SizeDecSaturating(x) == IF x = 0 THEN 0 ELSE x - 1

\* x - 1 on size_t
SizeDec(x) == x - 1

\* a < b on size_t
SizeLess(a, b) == IF (a >= 0) = (b >= 0) THEN a < b ELSE b < 0

\* n + 1 on uint32_t, kept as size_t is: a value v >= 2^31 as v - 2^32, so
\* that UINT32_MAX is -1 and UINT32_MAX + 1 = 0
Uint32Inc(n) == IF n = 2147483647 THEN -2147483647 - 1 ELSE n + 1

\* a < b on uint32_t
Uint32Less(a, b) == IF (a >= 0) = (b >= 0) THEN a < b ELSE b < 0

\* n - 1 on unsigned int: 0 - 1 is UINT_MAX, kept as -1
Uint32Dec(n) == IF n = -2147483647 - 1 THEN 2147483647 ELSE n - 1

VARIABLES
    \* PTEventQueue
    events, head, tail, count,
    \* result of the last queue call: which call, its return value (also that of
    \* the last addThread() or removeThread()), and the caller's PTEvent variable
    \* that pop() writes
    op, ret, out,
    \* time_us_32()
    now,
    \* number of clear() calls so far
    clears,
    \* history since construction or the last clear(): the events whose push
    \* returned true, and the events pop() handed out
    accepted, popped,
    \* the cooperative context inside push()/pop(): where it stands, and the
    \* argument of the push() it is executing
    pcCoop, coopEvt,
    \* number of push() calls the cooperative context has started
    coopPushes,
    \* an interrupt handler pushed between the test and the interrupts-disabled
    \* region of the cooperative context's current or most recent call
    preempted,
    \* the PTThread objects: the body each one runs, and its fields
    body, thr,
    \* the value the last execute() called directly returned
    result,
    \* the condition the bodies wait for
    x,
    \* PTScheduler
    threads, thread_count, scheduler_ticks,
    \* per thread, the most recent invocation of its body since construction or
    \* init(): the resumption marker and the condition at entry, the statements
    \* it executed and the status it returned
    last,
    \* the most recent runOnce() pass: the registered threads at its start, each
    \* with its active flag, and the bodies it invoked, each with its status and
    \* the targets of the stop() calls it made
    passStart, passLog,
    \* PTScheduler::running
    running,
    \* run(): where the call stands (idle: not called, test: at the loop
    \* condition, pass: inside runOnce(), returned), and the loop variable i of
    \* the runOnce() in progress
    pcRun, idx,
    \* where run() stood when PTScheduler::stop() was called since run() was
    \* entered: none, test (between passes) or pass (during a pass)
    stopCall,
    \* a second PTScheduler object: its list of threads
    threads2, thread_count2,
    \* a struct pt_sem: its counter, and what the most recent invocation of a
    \* body that uses it did
    sem, semLast,
    \* the value PT_SEM_INIT gave the counter
    semInit,
    \* the SimpleThread objects' fields
    simple,
    \* SimpleScheduler
    simple_threads, simple_thread_count,
    \* the most recent SimpleScheduler::run(): the registered threads at its
    \* start, each with its fields, and the threads whose execute() it called
    simpleRun,
    \* what the most recent invocation of a body that waits for events did, and
    \* the events the waits have popped so far, each with its thread and whether
    \* the thread proceeded with it
    evLast, waitLog,
    \* pt-test-simple: the fields of fast_thread and slow_thread
    demo

qvars == <<events, head, tail, count, op, ret, out, now, clears, accepted, popped,
           pcCoop, coopEvt, coopPushes, preempted>>

\* the state of run()
svars == <<running, pcRun, idx, stopCall>>

\* the second scheduler and the semaphore
\* the simple threads, the event waits and the demo
dvars == <<simple, simple_threads, simple_thread_count, simpleRun, evLast, waitLog, demo>>

evars == <<threads2, thread_count2, sem, semLast, semInit, dvars>>

tvars == <<body, thr, result, x, threads, thread_count, scheduler_ticks, last,
           passStart, passLog, svars, evars>>

vars == <<qvars, tvars>>

(***************************************************************************)
(* PTEvent                                                                 *)
(***************************************************************************)
\* PTEvent(): the default constructor
DefaultEvent == [type |-> "NONE", data |-> 0, timestamp |-> 0, processed |-> FALSE]

\* PTEvent(t, d): stamped with time_us_32()
NewEvent(t, d, time) == [type |-> t, data |-> d, timestamp |-> time, processed |-> FALSE]

(***************************************************************************)
(* PTEventQueue                                                            *)
(***************************************************************************)
Slots == 0 .. (MAX_EVENTS - 1)

\* the queue object as one value
Queue == [events |-> events, head |-> head, tail |-> tail, count |-> count]

\* PTEventQueue(): head(0), tail(0), count(0), every slot default constructed
EmptyQueue == [events |-> [i \in Slots |-> DefaultEvent], head |-> 0, tail |-> 0, count |-> 0]

\* a push() that tests count > MAX_EVENTS
PushRejectsOffByOne(q) == SizeLess(MAX_EVENTS, q.count)

\* a push() without the test: a full queue takes the event
PushRejectsNever(q) == FALSE

\* push(): the test before the critical section
PushRejects(q) == ~SizeLess(q.count, MAX_EVENTS)

\* a push() that advances head without wrapping it
PushCritNoWrap(q, e) ==
    [events |-> [q.events EXCEPT ![q.head] = e],
     head   |-> q.head + 1,
     tail   |-> q.tail,
     count  |-> SizeInc(q.count)]

\* push(): the critical section
PushCrit(q, e) ==
    [events |-> [q.events EXCEPT ![q.head] = e],
     head   |-> (q.head + 1) % MAX_EVENTS,
     tail   |-> q.tail,
     count  |-> SizeInc(q.count)]

\* a pop() that tests count < 0, which no size_t satisfies
PopRejectsNever(q) == SizeLess(q.count, 0)

\* pop(): the test before the critical section
PopRejects(q) == q.count = 0

\* pop(): the event the critical section copies to the caller
PopEvent(q) == q.events[q.tail]

\* a pop() that forgets to advance tail
PopCritKeepsTail(q) ==
    [events |-> q.events, head |-> q.head, tail |-> q.tail, count |-> SizeDec(q.count)]

\* a pop() that advances tail without wrapping it
PopCritSkips(q) ==
    [events |-> q.events, head |-> q.head, tail |-> (q.tail + 2) % MAX_EVENTS,
     count |-> SizeDec(q.count)]

\* pop(): the critical section
PopCrit(q) ==
    [events |-> q.events,
     head   |-> q.head,
     tail   |-> (q.tail + 1) % MAX_EVENTS,
     count  |-> SizeDec(q.count)]

\* a clear() that leaves tail where it is
ClearKeepsTail(q) == [events |-> q.events, head |-> 0, tail |-> q.tail, count |-> 0]

\* clear(): head = tail = count = 0, the slots keep their contents
ClearQueue(q) == [events |-> q.events, head |-> 0, tail |-> 0, count |-> 0]

isEmpty == count = 0
size == count

SetQueue(q) ==
    /\ events' = q.events
    /\ head' = q.head
    /\ tail' = q.tail
    /\ count' = q.count

InitQueue ==
    /\ events = EmptyQueue.events
    /\ head = EmptyQueue.head
    /\ tail = EmptyQueue.tail
    /\ count = EmptyQueue.count
    /\ op = "none"
    /\ ret = FALSE
    /\ out = DefaultEvent
    /\ now = 0
    /\ clears = 0
    /\ accepted = <<>>
    /\ popped = <<>>
    /\ pcCoop = "idle"
    /\ coopEvt = DefaultEvent
    /\ coopPushes = 0
    /\ preempted = FALSE

(***************************************************************************)
(* Queue calls made from one context: each call runs from entry to return. *)
(***************************************************************************)
\* push(PTEvent(USER_EVENT, 0))
Push ==
    /\ pcCoop = "idle"
    /\ now < MaxClock
    /\ now' = now + 1
    /\ op' = "push"
    /\ LET e == NewEvent("USER_EVENT", 0, now + 1) IN
         IF PushRejects(Queue)
           THEN /\ ret' = FALSE
                /\ UNCHANGED <<events, head, tail, count, accepted>>
           ELSE /\ SetQueue(PushCrit(Queue, e))
                /\ ret' = TRUE
                /\ accepted' = Append(accepted, e)
    /\ UNCHANGED <<out, clears, popped, pcCoop, coopEvt, coopPushes, preempted>>
    /\ UNCHANGED tvars

\* pop(out)
Pop ==
    /\ pcCoop = "idle"
    /\ op' = "pop"
    /\ IF PopRejects(Queue)
         THEN /\ ret' = FALSE
              /\ UNCHANGED <<events, head, tail, count, out, popped>>
         ELSE /\ out' = PopEvent(Queue)
              /\ SetQueue(PopCrit(Queue))
              /\ ret' = TRUE
              /\ popped' = Append(popped, PopEvent(Queue))
    /\ UNCHANGED <<now, clears, accepted, pcCoop, coopEvt, coopPushes, preempted>>
    /\ UNCHANGED tvars

\* clear()
Clear ==
    /\ pcCoop = "idle"
    /\ clears < MaxClears
    /\ clears' = clears + 1
    /\ op' = "clear"
    /\ SetQueue(ClearQueue(Queue))
    /\ accepted' = <<>>
    /\ popped' = <<>>
    /\ UNCHANGED <<ret, out, now, pcCoop, coopEvt, coopPushes, preempted>>
    /\ UNCHANGED tvars

(***************************************************************************)
(* Queue calls with an interrupt handler.  The cooperative context runs    *)
(* push()/pop() in two steps, the test and the interrupts-disabled region; *)
(* an interrupt handler runs its whole push() between any two steps of the *)
(* cooperative context, never inside the interrupts-disabled region.       *)
(***************************************************************************)
\* push() called by an interrupt handler
IsrPush ==
    /\ now < MaxClock
    /\ now' = now + 1
    /\ LET e == NewEvent("USER_EVENT", 0, now + 1) IN
         IF PushRejects(Queue)
           THEN UNCHANGED <<events, head, tail, count, accepted>>
           ELSE /\ SetQueue(PushCrit(Queue, e))
                /\ accepted' = Append(accepted, e)
    /\ preempted' = (preempted \/ pcCoop # "idle")
    /\ UNCHANGED <<op, ret, out, clears, popped, pcCoop, coopEvt, coopPushes>>
    /\ UNCHANGED tvars

\* pop(): if (count == 0) return false;
PopTest ==
    /\ pcCoop = "idle"
    /\ IF PopRejects(Queue)
         THEN /\ op' = "pop"
              /\ ret' = FALSE
              /\ UNCHANGED pcCoop
         ELSE /\ pcCoop' = "pop_crit"
              /\ UNCHANGED <<op, ret>>
    /\ preempted' = FALSE
    /\ UNCHANGED <<events, head, tail, count, out, now, clears, accepted, popped, coopEvt,
                   coopPushes>>
    /\ UNCHANGED tvars

\* pop(): save_and_disable_interrupts() ... restore_interrupts(); return true;
PopCritical ==
    /\ pcCoop = "pop_crit"
    /\ pcCoop' = "idle"
    /\ out' = PopEvent(Queue)
    /\ SetQueue(PopCrit(Queue))
    /\ op' = "pop"
    /\ ret' = TRUE
    /\ popped' = Append(popped, PopEvent(Queue))
    /\ UNCHANGED <<now, clears, accepted, coopEvt, coopPushes, preempted>>
    /\ UNCHANGED tvars

\* push(): if (count >= MAX_EVENTS) return false;
PushTest ==
    /\ pcCoop = "idle"
    /\ now < MaxClock
    /\ coopPushes < MaxCoopPushes
    /\ coopPushes' = coopPushes + 1
    /\ preempted' = FALSE
    /\ now' = now + 1
    /\ IF PushRejects(Queue)
         THEN /\ op' = "push"
              /\ ret' = FALSE
              /\ UNCHANGED <<pcCoop, coopEvt>>
         ELSE /\ pcCoop' = "push_crit"
              /\ coopEvt' = NewEvent("USER_EVENT", 0, now + 1)
              /\ UNCHANGED <<op, ret>>
    /\ UNCHANGED <<events, head, tail, count, out, clears, accepted, popped>>
    /\ UNCHANGED tvars

\* push(): save_and_disable_interrupts() ... restore_interrupts(); return true;
PushCritical ==
    /\ pcCoop = "push_crit"
    /\ pcCoop' = "idle"
    /\ SetQueue(PushCrit(Queue, coopEvt))
    /\ op' = "push"
    /\ ret' = TRUE
    /\ accepted' = Append(accepted, coopEvt)
    /\ UNCHANGED <<out, now, clears, popped, coopEvt, coopPushes, preempted>>
    /\ UNCHANGED tvars

(***************************************************************************)
(* pt.h: protothreads                                                      *)
(***************************************************************************)
PT_WAITING == 0
PT_YIELDED == 1
PT_EXITED == 2
PT_ENDED == 3

Terminal == {PT_EXITED, PT_ENDED}

\* PT_INIT(pt): (pt)->lc = 0
PT_INIT == 0

(***************************************************************************)
(* A thread body is the statement list between PT_BEGIN and PT_END; the    *)
(* statement at position i stands on source line i, so a suspension point  *)
(* at position i has the case label i.                                     *)
(*   "set"    an ordinary statement (flag = true)                          *)
(*   "wait"   PT_WAIT_UNTIL(pt, x)                                         *)
(*   "yield"  PT_YIELD(pt)                                                 *)
(*   "exit"   PT_EXIT(pt)                                                  *)
(*   "stop"   target->stop(), the target a thread or the scheduler: an      *)
(*            ordinary statement as well                                    *)
(*   "remove" scheduler.removeThread(&target): an ordinary statement as    *)
(*            well                                                          *)
(*   "goto"   the closing brace of a while (true) loop: control goes back   *)
(*            to the loop's first statement, at position target             *)
(***************************************************************************)
Stmt(o) == [op |-> o]
Stop(target) == [op |-> "stop", target |-> target]
Goto(target) == [op |-> "goto", target |-> target]
Remove(target) == [op |-> "remove", target |-> target]

\* the scheduler as the target of a stop()
Scheduler == "scheduler"

\* flag1 = true; PT_WAIT_UNTIL(x); flag2 = true;
WaitBody == <<Stmt("set"), Stmt("wait"), Stmt("set")>>
\* flag1 = true; PT_YIELD(); flag2 = true;
YieldBody == <<Stmt("set"), Stmt("yield"), Stmt("set")>>
\* PT_EXIT();
ExitBody == <<Stmt("exit")>>
\* flag1 = true;
EndBody == <<Stmt("set")>>

\* t2.stop(); PT_WAIT_UNTIL(x); flag2 = true;
StopThreadBody == <<Stop("t2"), Stmt("wait"), Stmt("set")>>
\* scheduler.stop(); PT_WAIT_UNTIL(x); flag2 = true;
StopSchedBody == <<Stop(Scheduler), Stmt("wait"), Stmt("set")>>

\* scheduler.removeThread(&t1); PT_WAIT_UNTIL(x); flag2 = true;
RemoverBody == <<Remove("t1"), Stmt("wait"), Stmt("set")>>

\* while (true) { update(); PT_THREAD_YIELD(this); }
LoopYieldBody == <<Stmt("set"), Stmt("yield"), Goto(1)>>

Bodies == {WaitBody, YieldBody, ExitBody, EndBody}

\* what one invocation of a body yields: the status it returns, the marker it
\* leaves, and the positions of the ordinary statements it executed
Outcome(status, lc, ran) == [status |-> status, lc |-> lc, ran |-> ran]

\* a PT_WAIT_UNTIL that does not record the marker
WaitUntilKeepsMarker(i, lc) == lc

\* PT_WAIT_UNTIL at position i, entered from the statement before it: the
\* marker is set, then the condition is tested at the case label
WaitUntilEnter(i, lc) == i

\* a PT_WAIT_UNTIL that never suspends
WaitUntilPasses(i, cond) == FALSE

\* PT_WAIT_UNTIL at position i, from its case label on: if (!(condition))
\* return PT_WAITING
WaitUntilSuspends(i, cond) == ~cond

\* The statements of prog from position i on.  jumped: control reached
\* position i through the switch of PT_BEGIN, that is at the case label, after
\* the assignment of the marker.
RECURSIVE RunFrom(_, _, _, _, _, _)
RunFrom(prog, i, jumped, lc, cond, ran) ==
    IF i > Len(prog)
      THEN \* PT_END: (pt)->lc = 0; return PT_ENDED
           Outcome(PT_ENDED, 0, ran)
      ELSE
        CASE prog[i].op \in {"set", "stop", "remove"} ->
               RunFrom(prog, i + 1, FALSE, lc, cond, Append(ran, i))
          [] prog[i].op = "wait" ->
               LET lc1 == IF jumped THEN lc ELSE WaitUntilEnter(i, lc) IN
                 IF WaitUntilSuspends(i, cond)
                   THEN Outcome(PT_WAITING, lc1, ran)
                   ELSE RunFrom(prog, i + 1, FALSE, lc1, cond, ran)
          [] prog[i].op = "yield" ->
               \* PT_YIELD: (pt)->lc = __LINE__; case __LINE__: return PT_YIELDED
               Outcome(PT_YIELDED, IF jumped THEN lc ELSE i, ran)
          [] prog[i].op = "exit" ->
               \* PT_EXIT: return PT_EXITED
               Outcome(PT_EXITED, lc, ran)
          [] prog[i].op = "goto" ->
               RunFrom(prog, prog[i].target, FALSE, lc, cond, ran)

\* the targets of the stop() calls among the statements ran of prog
StopsOf(prog, ran) ==
    {prog[ran[k]].target : k \in {j \in 1 .. Len(ran) : prog[ran[j]].op = "stop"}}

\* the targets of the removeThread() calls among the statements ran of prog,
\* in the order of the calls
RemovesOf(prog, ran) ==
    LET calls == SelectSeq(ran, LAMBDA i : prog[i].op = "remove")
    IN [k \in 1 .. Len(calls) |-> prog[calls[k]].target]

\* the positions that carry a case label
Labels(prog) == {i \in 1 .. Len(prog) : prog[i].op \in {"wait", "yield"}}

\* run(): PT_BEGIN ... PT_END.  switch ((pt)->lc): case 0 starts at the first
\* statement, the label of a suspension point jumps to it, and a value with
\* no label leaves the switch at PT_END
RunBody(prog, lc, cond) ==
    IF lc = 0 THEN RunFrom(prog, 1, FALSE, lc, cond, <<>>)
    ELSE IF lc \in Labels(prog) THEN RunFrom(prog, lc, TRUE, lc, cond, <<>>)
    ELSE Outcome(PT_ENDED, 0, <<>>)

(***************************************************************************)
(* The macros a body is written with.                                      *)
(***************************************************************************)
\* the macros pt.h defines
PtMacros == {"PT_INIT", "PT_BEGIN", "PT_END", "PT_WAIT_UNTIL", "PT_YIELD", "PT_EXIT"}

\* pt_thread.h: what each PT_THREAD_ macro expands to
ThreadMacro ==
    [PT_THREAD_BEGIN |-> "PT_BEGIN",
     PT_THREAD_END |-> "PT_END",
     PT_THREAD_WAIT_UNTIL |-> "PT_WAIT_UNTIL",
     PT_THREAD_WAIT_WHILE |-> "PT_WAIT_WHILE",
     PT_THREAD_YIELD |-> "PT_YIELD",
     PT_THREAD_YIELD_UNTIL |-> "PT_YIELD_UNTIL",
     PT_THREAD_EXIT |-> "PT_EXIT",
     PT_THREAD_RESTART |-> "PT_RESTART"]

\* the PT_THREAD_ macro a statement is written with; "wait_while" is
\* PT_THREAD_WAIT_WHILE(this, !x)
MacroOf ==
    [wait |-> "PT_THREAD_WAIT_UNTIL",
     wait_while |-> "PT_THREAD_WAIT_WHILE",
     yield |-> "PT_THREAD_YIELD",
     exit |-> "PT_THREAD_EXIT"]

\* the macros the translation unit of a body expands, PT_THREAD_BEGIN and
\* PT_THREAD_END among them
MacrosUsed(prog) ==
    {"PT_THREAD_BEGIN", "PT_THREAD_END"} \cup
        {MacroOf[prog[i].op] : i \in {j \in 1 .. Len(prog) : prog[j].op \in DOMAIN MacroOf}}

\* the body compiles: every macro it uses expands to a macro that is defined
Builds(prog) == \A m \in MacrosUsed(prog) : ThreadMacro[m] \in PtMacros

\* prog with PT_THREAD_WAIT_WHILE(this, !x) in the place of every
\* PT_THREAD_WAIT_UNTIL(this, x)
WaitWhileTwin(prog) ==
    [i \in 1 .. Len(prog) |-> IF prog[i].op = "wait" THEN Stmt("wait_while") ELSE prog[i]]

(***************************************************************************)
(* pt-sem.h: counting semaphores.  A body that uses the semaphore has the  *)
(* statements                                                              *)
(*   "sem_wait"    PT_SEM_WAIT(pt, &s)                                     *)
(*   "sem_signal"  PT_SEM_SIGNAL(pt, &s)                                   *)
(* besides the ordinary ones and PT_WAIT_UNTIL(pt, x).                     *)
(***************************************************************************)
\* PT_SEM_WAIT(pt, &s); consume();
ConsumerBody == <<Stmt("sem_wait"), Stmt("set")>>
\* PT_SEM_WAIT(pt, &s); PT_SEM_WAIT(pt, &s);
TakeTwoBody == <<Stmt("sem_wait"), Stmt("sem_wait")>>
\* produce(); PT_SEM_SIGNAL(pt, &s);
ProducerBody == <<Stmt("set"), Stmt("sem_signal")>>
\* PT_SEM_WAIT(pt, &s); critical(); PT_SEM_SIGNAL(pt, &s);
MutexBody == <<Stmt("sem_wait"), Stmt("set"), Stmt("sem_signal")>>

\* a PT_SEM_WAIT that does not look at the counter
SemAvailableAlways(cnt) == TRUE

\* PT_SEM_WAIT(pt, &s); PT_WAIT_UNTIL(pt, x); PT_SEM_SIGNAL(pt, &s);
CriticalBody == <<Stmt("sem_wait"), Stmt("wait"), Stmt("sem_signal")>>

\* PT_SEM_WAIT: the condition (s)->count > 0
SemAvailable(cnt) == Uint32Less(0, cnt)

\* a PT_SEM_WAIT that leaves the counter as it is
SemTakeNothing(cnt) == cnt

\* PT_SEM_WAIT: --(s)->count
SemTake(cnt) == Uint32Dec(cnt)

\* PT_SEM_SIGNAL: ++(s)->count
SemGive(cnt) == Uint32Inc(cnt)

\* what one invocation of a body that uses the semaphore yields: the status,
\* the marker, the counter, the values the counter had before each decrement,
\* and the number of increments
SemOutcome(status, lc, cnt, taken, given) ==
    [status |-> status, lc |-> lc, count |-> cnt, taken |-> taken, given |-> given]

\* The statements of prog from position i on, the semaphore counter being cnt
\* and the condition of the PT_WAIT_UNTILs cond.
RECURSIVE RunSemFrom(_, _, _, _, _, _, _, _)
RunSemFrom(prog, i, jumped, lc, cnt, taken, given, cond) ==
    IF i > Len(prog)
      THEN SemOutcome(PT_ENDED, 0, cnt, taken, given)
      ELSE
        CASE prog[i].op = "set" ->
               RunSemFrom(prog, i + 1, FALSE, lc, cnt, taken, given, cond)
          [] prog[i].op = "wait" ->
               LET lc1 == IF jumped THEN lc ELSE WaitUntilEnter(i, lc) IN
                 IF WaitUntilSuspends(i, cond)
                   THEN SemOutcome(PT_WAITING, lc1, cnt, taken, given)
                   ELSE RunSemFrom(prog, i + 1, FALSE, lc1, cnt, taken, given, cond)
          [] prog[i].op = "sem_wait" ->
               \* PT_WAIT_UNTIL(pt, (s)->count > 0); --(s)->count;
               LET lc1 == IF jumped THEN lc ELSE WaitUntilEnter(i, lc) IN
                 IF WaitUntilSuspends(i, SemAvailable(cnt))
                   THEN SemOutcome(PT_WAITING, lc1, cnt, taken, given)
                   ELSE RunSemFrom(prog, i + 1, FALSE, lc1, SemTake(cnt),
                                   Append(taken, cnt), given, cond)
          [] prog[i].op = "sem_signal" ->
               RunSemFrom(prog, i + 1, FALSE, lc, SemGive(cnt), taken, given + 1, cond)

\* the positions of prog that carry a case label
SemLabels(prog) == {i \in 1 .. Len(prog) : prog[i].op \in {"sem_wait", "wait"}}

\* PT_BEGIN ... PT_END of a body that uses the semaphore
RunSemBody(prog, lc, cnt, cond) ==
    IF lc = 0 THEN RunSemFrom(prog, 1, FALSE, lc, cnt, <<>>, 0, cond)
    ELSE IF lc \in SemLabels(prog) THEN RunSemFrom(prog, lc, TRUE, lc, cnt, <<>>, 0, cond)
    ELSE SemOutcome(PT_ENDED, 0, cnt, <<>>, 0)

(***************************************************************************)
(* PTThread                                                                *)
(***************************************************************************)
Threads == {"t1", "t2", "t3"}
\* the thread object that is driven without a scheduler
DirectThreads == {"t1"}
\* the thread objects that take part where two threads suffice
SchedThreads == {"t1", "t2"}
NullThread == "nullptr"
\* the SimpleThread objects
SimpleThreads == {"s1", "s2"}

\* PTThread(name): active(true), last_run_time(0), run_count(0),
\* event_queue(nullptr), PT_INIT(&thread_pt)
NewThread ==
    [lc |-> PT_INIT, active |-> TRUE, last_run_time |-> 0, run_count |-> 0,
     event_queue |-> "nullptr"]

\* no invocation of the body yet
NoCall == [entry |-> 0, cond |-> FALSE, status |-> -1, ran |-> <<>>]

\* an execute() without the test of the active flag
ExecuteSkipsNever(th) == FALSE

\* execute(): if (!active) return PT_EXITED
ExecuteSkips(th) == ~th.active

\* an execute() that does not count the run
ExecuteKeepsCount(th, prog, cond, time) ==
    IF ~th.active
      THEN [th |-> th, result |-> PT_EXITED, invoked |-> FALSE, call |-> NoCall]
      ELSE
        LET o == RunBody(prog, th.lc, cond) IN
          [th |-> [th EXCEPT !.last_run_time = time,
                             !.lc = o.lc,
                             !.active = IF o.status \in Terminal THEN FALSE ELSE @],
           result |-> o.status,
           invoked |-> TRUE,
           call |-> [entry |-> th.lc, cond |-> cond, status |-> o.status, ran |-> o.ran]]

\* execute() on thread object th running prog at time time: the object
\* afterwards, the value returned, whether the body was invoked and what the
\* invocation did
ThreadExecute(th, prog, cond, time) ==
    IF ExecuteSkips(th)
      THEN [th |-> th, result |-> PT_EXITED, invoked |-> FALSE, call |-> NoCall]
      ELSE
        LET o == RunBody(prog, th.lc, cond) IN
          [th |-> [th EXCEPT !.last_run_time = time,
                             !.lc = o.lc,
                             !.run_count = @ + 1,
                             !.active = IF o.status \in Terminal THEN FALSE ELSE @],
           result |-> o.status,
           invoked |-> TRUE,
           call |-> [entry |-> th.lc, cond |-> cond, status |-> o.status, ran |-> o.ran]]

\* an init() that leaves the marker where it is
InitKeepsMarker(th) == [th EXCEPT !.active = TRUE, !.run_count = 0]

\* init(): PT_INIT(&thread_pt); active = true; run_count = 0
ThreadInitOf(th) == [th EXCEPT !.lc = PT_INIT, !.active = TRUE, !.run_count = 0]

\* a stop() that does nothing
StopKeepsActive(th) == th

\* stop(): active = false
ThreadStopOf(th) == [th EXCEPT !.active = FALSE]

\* the thread objects th after stop() has been called on those in targets
StopThreads(th, targets) ==
    [u \in DOMAIN th |-> IF u \in targets THEN ThreadStopOf(th[u]) ELSE th[u]]

\* PTScheduler::running after the stop() calls on targets
StopScheduler(r, targets) == IF Scheduler \in targets THEN FALSE ELSE r

(***************************************************************************)
(* PTScheduler                                                             *)
(***************************************************************************)
MAX_THREADS == 16
ThreadSlots == 0 .. (MAX_THREADS - 1)

\* the registered threads, in registration order
Registered(arr, cnt) == [k \in 1 .. cnt |-> arr[k - 1]]

\* removeThread(): threads[j] = threads[j + 1] for j = i .. thread_count - 2
ShiftLeft(arr, cnt, i) ==
    [j \in ThreadSlots |-> IF j >= i /\ j < cnt - 1 THEN arr[j + 1] ELSE arr[j]]

\* removeThread(thread): the first entry equal to thread is removed
RemoveThreadOf(arr, cnt, t) ==
    LET hits == {i \in 0 .. (cnt - 1) : arr[i] = t} IN
      IF hits = {}
        THEN [threads |-> arr, thread_count |-> cnt, found |-> FALSE]
        ELSE LET i == CHOOSE h \in hits : \A g \in hits : h <= g IN
               [threads |-> ShiftLeft(arr, cnt, i), thread_count |-> cnt - 1,
                found |-> TRUE]

\* the list after removeThread() has been called on targets, one after the
\* other
RECURSIVE RemoveThreads(_, _, _)
RemoveThreads(arr, cnt, targets) ==
    IF targets = <<>>
      THEN [threads |-> arr, thread_count |-> cnt]
      ELSE LET r == RemoveThreadOf(arr, cnt, Head(targets))
           IN RemoveThreads(r.threads, r.thread_count, Tail(targets))

\* an addThread() that tests the pointer only
AddRejectsNull(cnt, t) == t = NullThread

\* addThread(): if (thread_count >= MAX_THREADS || thread == nullptr) return false
AddRejects(cnt, t) == cnt >= MAX_THREADS \/ t = NullThread

\* getThreadCount(): return thread_count
getThreadCount == thread_count

\* a runOnce() that tests the pointer only
DispatchesInactive(t, th) == t # NullThread

\* runOnce(): if (thread && thread->isActive())
Dispatches(t, th) == t # NullThread /\ th[t].active

\* runOnce(): one iteration of the loop, at index i.  s holds the scheduler's
\* list and flag, the thread objects, the time and the invocations made so far
\* in this pass: the thread, the status returned and the targets of the stop()
\* calls of the body.  The result is the index of the next iteration and s
\* after this one.
LoopBody(i, s, prog, cond) ==
    LET t == s.threads[i] IN
      IF ~Dispatches(t, s.thr)
        THEN [i |-> SizeInc(i), s |-> s]
        ELSE
          LET e == ThreadExecute(s.thr[t], prog[t], cond, s.now)
              stops == StopsOf(prog[t], e.call.ran)
              rm == RemoveThreads(s.threads, s.thread_count, RemovesOf(prog[t], e.call.ran))
              s1 == [s EXCEPT !.thr = StopThreads([@ EXCEPT ![t] = e.th], stops),
                              !.threads = rm.threads,
                              !.thread_count = rm.thread_count,
                              !.running = StopScheduler(@, stops),
                              !.last[t] = IF e.invoked THEN e.call ELSE @,
                              !.log = IF e.invoked
                                        THEN Append(@, <<t, e.result, stops>>)
                                        ELSE @]
          IN
            IF e.result \in Terminal
              THEN \* removeThread(thread); i--;
                   LET r == RemoveThreadOf(s1.threads, s1.thread_count, t) IN
                     [i |-> SizeInc(SizeDec(i)),
                      s |-> [s1 EXCEPT !.threads = r.threads,
                                       !.thread_count = r.thread_count]]
              ELSE [i |-> SizeInc(i), s |-> s1]

\* runOnce(): the loop from index i on
RECURSIVE RunLoop(_, _, _, _)
RunLoop(i, s, prog, cond) ==
    IF ~SizeLess(i, s.thread_count)
      THEN s
      ELSE LET r == LoopBody(i, s, prog, cond) IN RunLoop(r.i, r.s, prog, cond)

\* SimpleThread(name): last_time(get_absolute_time()), interval_ms(0),
\* enabled(true)
NewSimpleThread(time) == [last_time |-> time, interval_ms |-> 0, enabled |-> TRUE]

\* SimpleScheduler::MAX_THREADS
SIMPLE_MAX_THREADS == 16
SimpleSlots == 0 .. (SIMPLE_MAX_THREADS - 1)

\* SimpleScheduler::run() not called yet
NoSimpleRun ==
    [called |-> FALSE, registered |-> <<>>,
     before |-> [t \in SimpleThreads |-> NewSimpleThread(0)], executed |-> <<>>]

\* no invocation of a body that waits for events yet
NoEventCall == [thread |-> NullThread, entry |-> 0, status |-> -1,
                accepted |-> <<>>, discarded |-> <<>>]

\* FastBlinkThread(): state(INIT), sequence_count(0), current_blink(0);
\* SlowPulseThread(): state(WAITING), sequence_count(0), current_pulse(0)
NewDemo ==
    [fast |-> [state |-> "INIT", sequence_count |-> 0, current_blink |-> 0],
     slow |-> [state |-> "WAITING", sequence_count |-> 0, current_pulse |-> 0]]

\* the simple threads are constructed at time 0 and none is registered:
\* SimpleScheduler() : thread_count(0); no body has waited for an event; the
\* demo threads are as constructed
InitMore ==
    /\ simple = [t \in SimpleThreads |-> NewSimpleThread(0)]
    /\ simple_threads = [j \in SimpleSlots |-> NullThread]
    /\ simple_thread_count = 0
    /\ simpleRun = NoSimpleRun
    /\ evLast = NoEventCall
    /\ waitLog = <<>>
    /\ demo = NewDemo

\* no invocation of a body that uses the semaphore yet
NoSemCall == [entry |-> 0, status |-> -1, before |-> 0, taken |-> <<>>, given |-> 0]

\* the second scheduler is empty: thread_count(0); the semaphore stands at 0
InitExtra ==
    /\ threads2 = [j \in ThreadSlots |-> NullThread]
    /\ thread_count2 = 0
    /\ sem = 0
    /\ semLast = NoSemCall
    /\ semInit = 0
    /\ InitMore

InitThreads ==
    /\ thr = [t \in Threads |-> NewThread]
    /\ result = -1
    /\ x = FALSE
    /\ threads = [j \in ThreadSlots |-> NullThread]
    /\ thread_count = 0
    /\ scheduler_ticks = 0
    /\ last = [t \in Threads |-> NoCall]
    /\ passStart = <<>>
    /\ passLog = <<>>
    /\ running = FALSE
    /\ pcRun = "idle"
    /\ idx = 0
    /\ stopCall = "none"
    /\ InitExtra

\* the pass record is kept only in the state that follows a runOnce()
NoPass == passStart' = <<>> /\ passLog' = <<>>

\* time passes: time_us_32() returns a later value
Tick ==
    /\ now < MaxTime
    /\ now' = now + 1
    /\ UNCHANGED <<events, head, tail, count, op, ret, out, clears, accepted, popped,
                   pcCoop, coopEvt, coopPushes, preempted>>
    /\ UNCHANGED tvars

\* the environment changes the condition the bodies wait for
SetX ==
    /\ x' = ~x
    /\ NoPass
    /\ UNCHANGED <<body, thr, result, threads, thread_count, scheduler_ticks, last, svars>>
    /\ UNCHANGED <<events, head, tail, count, op, ret, out, now, clears, accepted, popped,
                   pcCoop, coopEvt, coopPushes, preempted>>
    /\ UNCHANGED evars

\* t.execute() called directly; an active thread is executed only while its run
\* counter is below maxRuns
Execute(t, maxRuns) ==
    /\ thr[t].active => thr[t].run_count < maxRuns
    /\ LET e == ThreadExecute(thr[t], body[t], x, now)
           stops == StopsOf(body[t], e.call.ran)
           rm == RemoveThreads(threads, thread_count, RemovesOf(body[t], e.call.ran))
       IN
         /\ thr' = StopThreads([thr EXCEPT ![t] = e.th], stops)
         /\ threads' = rm.threads
         /\ thread_count' = rm.thread_count
         /\ running' = StopScheduler(running, stops)
         /\ last' = IF e.invoked THEN [last EXCEPT ![t] = e.call] ELSE last
         /\ result' = e.result
    /\ NoPass
    /\ UNCHANGED <<body, x, scheduler_ticks, pcRun, idx, stopCall>>
    /\ UNCHANGED <<events, head, tail, count, op, ret, out, now, clears, accepted, popped,
                   pcCoop, coopEvt, coopPushes, preempted>>
    /\ UNCHANGED evars

\* t.init()
ThreadInit(t) ==
    /\ thr' = [thr EXCEPT ![t] = ThreadInitOf(@)]
    /\ last' = [last EXCEPT ![t] = NoCall]
    /\ NoPass
    /\ UNCHANGED <<body, result, x, threads, thread_count, scheduler_ticks, svars>>
    /\ UNCHANGED <<events, head, tail, count, op, ret, out, now, clears, accepted, popped,
                   pcCoop, coopEvt, coopPushes, preempted>>
    /\ UNCHANGED evars

\* t.stop()
ThreadStop(t) ==
    /\ thr' = [thr EXCEPT ![t] = ThreadStopOf(@)]
    /\ NoPass
    /\ UNCHANGED <<body, result, x, threads, thread_count, scheduler_ticks, last, svars>>
    /\ UNCHANGED <<events, head, tail, count, op, ret, out, now, clears, accepted, popped,
                   pcCoop, coopEvt, coopPushes, preempted>>
    /\ UNCHANGED evars

\* scheduler.addThread(t)
AddThreadCall(t) ==
    /\ IF AddRejects(thread_count, t)
         THEN /\ ret' = FALSE
              /\ UNCHANGED <<threads, thread_count, thr>>
         ELSE /\ threads' = [threads EXCEPT ![thread_count] = t]
              /\ thr' = [thr EXCEPT ![t].event_queue = "global_event_queue"]
              /\ thread_count' = thread_count + 1
              /\ ret' = TRUE
    /\ NoPass
    /\ UNCHANGED <<body, result, x, scheduler_ticks, last, svars>>
    /\ UNCHANGED <<events, head, tail, count, op, out, now, clears, accepted, popped,
                   pcCoop, coopEvt, coopPushes, preempted>>
    /\ UNCHANGED evars

\* scheduler.addThread(t), called only while fewer than MaxRegistered threads
\* are registered
AddThread(t) == thread_count < MaxRegistered /\ AddThreadCall(t)

\* the event queue of the second scheduler
Queue2 == "scheduler2.global_event_queue"

\* scheduler2.addThread(t), called only while fewer than MaxRegistered threads
\* are registered with it
AddThread2(t) ==
    /\ thread_count2 < MaxRegistered
    /\ IF AddRejects(thread_count2, t)
         THEN /\ ret' = FALSE
              /\ UNCHANGED <<threads2, thread_count2, thr>>
         ELSE /\ threads2' = [threads2 EXCEPT ![thread_count2] = t]
              /\ thr' = [thr EXCEPT ![t].event_queue = Queue2]
              /\ thread_count2' = thread_count2 + 1
              /\ ret' = TRUE
    /\ NoPass
    /\ UNCHANGED <<body, result, x, threads, thread_count, scheduler_ticks, last, svars>>
    /\ UNCHANGED <<events, head, tail, count, op, out, now, clears, accepted, popped,
                   pcCoop, coopEvt, coopPushes, preempted>>
    /\ UNCHANGED <<sem, semLast, semInit, dvars>>

\* scheduler.removeThread(t)
RemoveThread(t) ==
    /\ LET r == RemoveThreadOf(threads, thread_count, t) IN
         /\ threads' = r.threads
         /\ thread_count' = r.thread_count
         /\ ret' = r.found
    /\ NoPass
    /\ UNCHANGED <<body, thr, result, x, scheduler_ticks, last, svars>>
    /\ UNCHANGED <<events, head, tail, count, op, out, now, clears, accepted, popped,
                   pcCoop, coopEvt, coopPushes, preempted>>
    /\ UNCHANGED evars

\* scheduler.runOnce()
RunOnceCall ==
    /\ scheduler_ticks' = Uint32Inc(scheduler_ticks)
    /\ LET s0 == [threads |-> threads, thread_count |-> thread_count, thr |-> thr,
                  running |-> running, now |-> now, last |-> last, log |-> <<>>]
           s == RunLoop(0, s0, body, x)
       IN
         /\ threads' = s.threads
         /\ thread_count' = s.thread_count
         /\ thr' = s.thr
         /\ running' = s.running
         /\ last' = s.last
         /\ passLog' = s.log
         /\ passStart' = [k \in 1 .. thread_count |->
                            <<threads[k - 1], thr[threads[k - 1]].active>>]
    /\ UNCHANGED <<body, result, x, pcRun, idx, stopCall>>
    /\ UNCHANGED <<events, head, tail, count, op, ret, out, now, clears, accepted, popped,
                   pcCoop, coopEvt, coopPushes, preempted>>
    /\ UNCHANGED evars

\* scheduler.runOnce(), called at most MaxPasses times
RunOnce == scheduler_ticks < MaxPasses /\ RunOnceCall

\* scheduler_ticks++ under run(): the uint32_t counter starts again at 0 after
\* its largest value, which the model takes to be MaxTicks
TickInc(n) == (n + 1) % (MaxTicks + 1)

\* a run() that goes on while threads are registered, whatever running is
RunContinuesWhileThreads(r, cnt) == cnt # 0

\* a run() that leaves its loop at the first test
RunContinuesNever(r, cnt) == FALSE

\* run(): while (running && thread_count > 0)
RunContinues(r, cnt) == r /\ cnt # 0

\* scheduler.run() is called: running = true
RunCall ==
    /\ pcRun \in {"idle", "returned"}
    /\ running' = TRUE
    /\ pcRun' = "test"
    /\ stopCall' = "none"
    /\ NoPass
    /\ UNCHANGED <<body, thr, result, x, threads, thread_count, scheduler_ticks, last, idx>>
    /\ UNCHANGED <<events, head, tail, count, op, ret, out, now, clears, accepted, popped,
                   pcCoop, coopEvt, coopPushes, preempted>>
    /\ UNCHANGED evars

\* run(): the loop condition; it enters runOnce(), which counts the pass, or
\* run() returns
RunTest ==
    /\ pcRun = "test"
    /\ IF RunContinues(running, thread_count)
         THEN /\ pcRun' = "pass"
              /\ scheduler_ticks' = TickInc(scheduler_ticks)
              /\ idx' = 0
              /\ passStart' = [k \in 1 .. thread_count |->
                                 <<threads[k - 1], thr[threads[k - 1]].active>>]
              /\ passLog' = <<>>
         ELSE /\ pcRun' = "returned"
              /\ UNCHANGED <<scheduler_ticks, idx, passStart, passLog>>
    /\ UNCHANGED <<body, thr, result, x, threads, thread_count, last, running, stopCall>>
    /\ UNCHANGED <<events, head, tail, count, op, ret, out, now, clears, accepted, popped,
                   pcCoop, coopEvt, coopPushes, preempted>>
    /\ UNCHANGED evars

\* run(): one iteration of the loop of runOnce(); a thread is dispatched only
\* while its run counter is below MaxRuns
RunDispatch ==
    /\ pcRun = "pass"
    /\ SizeLess(idx, thread_count)
    /\ Dispatches(threads[idx], thr) => thr[threads[idx]].run_count < MaxRuns
    /\ LET s0 == [threads |-> threads, thread_count |-> thread_count, thr |-> thr,
                  running |-> running, now |-> now, last |-> last, log |-> passLog]
       IN \E r \in {LoopBody(idx, s0, body, x)} :
         /\ idx' = r.i
         /\ threads' = r.s.threads
         /\ thread_count' = r.s.thread_count
         /\ thr' = r.s.thr
         /\ running' = r.s.running
         /\ last' = r.s.last
         /\ passLog' = r.s.log
         /\ stopCall' = IF /\ Len(r.s.log) > Len(passLog)
                           /\ Scheduler \in r.s.log[Len(r.s.log)][3]
                          THEN "pass"
                          ELSE stopCall
    /\ UNCHANGED <<body, result, x, scheduler_ticks, passStart, pcRun>>
    /\ UNCHANGED <<events, head, tail, count, op, ret, out, now, clears, accepted, popped,
                   pcCoop, coopEvt, coopPushes, preempted>>
    /\ UNCHANGED evars

\* run(): the loop of runOnce() is over; tight_loop_contents(), and back to the
\* loop condition
RunPassEnd ==
    /\ pcRun = "pass"
    /\ ~SizeLess(idx, thread_count)
    /\ pcRun' = "test"
    /\ idx' = 0
    /\ UNCHANGED <<body, thr, result, x, threads, thread_count, scheduler_ticks, last,
                   passStart, passLog, running, stopCall>>
    /\ UNCHANGED <<events, head, tail, count, op, ret, out, now, clears, accepted, popped,
                   pcCoop, coopEvt, coopPushes, preempted>>
    /\ UNCHANGED evars

\* scheduler.stop() called from an interrupt handler: running = false
SchedStop ==
    /\ running' = StopScheduler(running, {Scheduler})
    /\ stopCall' = CASE pcRun = "pass" -> "pass"
                     [] pcRun = "test" /\ stopCall = "none" -> "test"
                     [] OTHER -> stopCall
    /\ UNCHANGED <<body, thr, result, x, threads, thread_count, scheduler_ticks, last,
                   passStart, passLog, pcRun, idx>>
    /\ UNCHANGED <<events, head, tail, count, op, ret, out, now, clears, accepted, popped,
                   pcCoop, coopEvt, coopPushes, preempted>>
    /\ UNCHANGED evars

\* scheduler.postEvent(USER_EVENT, 0): global_event_queue.push(PTEvent(type,
\* data)), called while the clock is below MaxTime
PostEvent == now < MaxTime /\ Push

\* t.execute(), the body of t using the semaphore; called while the thread's
\* run counter is below MaxRuns and the semaphore counter not above MaxSem
SemExecute(t) ==
    /\ thr[t].run_count < MaxRuns
    /\ sem <= MaxSem
    /\ IF ExecuteSkips(thr[t])
         THEN /\ result' = PT_EXITED
              /\ UNCHANGED <<thr, sem, semLast>>
         ELSE LET o == RunSemBody(body[t], thr[t].lc, sem, x) IN
                /\ thr' = [thr EXCEPT ![t] =
                             [@ EXCEPT !.last_run_time = now,
                                       !.lc = o.lc,
                                       !.run_count = @ + 1,
                                       !.active = IF o.status \in Terminal
                                                    THEN FALSE ELSE @]]
                /\ result' = o.status
                /\ sem' = o.count
                /\ semLast' = [entry |-> thr[t].lc, status |-> o.status, before |-> sem,
                               taken |-> o.taken, given |-> o.given]
    /\ NoPass
    /\ UNCHANGED <<body, x, threads, thread_count, scheduler_ticks, last, svars>>
    /\ UNCHANGED <<events, head, tail, count, op, ret, out, now, clears, accepted, popped,
                   pcCoop, coopEvt, coopPushes, preempted>>
    /\ UNCHANGED <<threads2, thread_count2, semInit, dvars>>

(***************************************************************************)
(* simple_threads.h: SimpleThread and SimpleScheduler.  execute() is pure  *)
(* virtual: the model records that it was called.  The intervals set stay  *)
(* far below 2^32 / 1000, where interval_ms * 1000 does not wrap.          *)
(***************************************************************************)
\* the variables of the protothreads, their scheduler and the semaphore
pvars == <<body, thr, result, x, threads, thread_count, scheduler_ticks, last,
           passStart, passLog, svars, threads2, thread_count2, sem, semLast, semInit>>

\* the queue's variables without the clock
cvars == <<events, head, tail, count, op, ret, out, clears, accepted, popped,
           pcCoop, coopEvt, coopPushes, preempted>>

\* a shouldRun() without the test of the enabled flag
ShouldRunIgnoresEnabled(st, time) ==
    IF st.interval_ms = 0
      THEN [run |-> TRUE, st |-> st]
      ELSE IF time - st.last_time >= st.interval_ms * 1000
             THEN [run |-> TRUE, st |-> [st EXCEPT !.last_time = time]]
             ELSE [run |-> FALSE, st |-> st]

\* shouldRun() on thread object st at time time: the value returned and the
\* object afterwards
ShouldRun(st, time) ==
    IF ~st.enabled
      THEN [run |-> FALSE, st |-> st]
      ELSE IF st.interval_ms = 0
             THEN [run |-> TRUE, st |-> st]
             ELSE IF time - st.last_time >= st.interval_ms * 1000
                    THEN [run |-> TRUE, st |-> [st EXCEPT !.last_time = time]]
                    ELSE [run |-> FALSE, st |-> st]

\* SimpleScheduler::run(): the loop from index i on; each entry that is not
\* null gets SimpleThread::run(): if (shouldRun()) execute();
RECURSIVE SimpleRunLoop(_, _, _, _, _, _)
SimpleRunLoop(i, arr, cnt, sts, time, log) ==
    IF ~(i < cnt)
      THEN [simple |-> sts, executed |-> log]
      ELSE
        LET t == arr[i] IN
          IF t = NullThread
            THEN SimpleRunLoop(i + 1, arr, cnt, sts, time, log)
            ELSE
              LET r == ShouldRun(sts[t], time) IN
                SimpleRunLoop(i + 1, arr, cnt, [sts EXCEPT ![t] = r.st], time,
                              IF r.run THEN Append(log, t) ELSE log)

\* t.setInterval(ms)
SetInterval(t, ms) ==
    /\ simple' = [simple EXCEPT ![t].interval_ms = ms]
    /\ UNCHANGED <<simple_threads, simple_thread_count, simpleRun, evLast, waitLog, demo>>
    /\ UNCHANGED <<now, cvars, pvars>>

\* t.setEnabled(enable)
SetEnabled(t, enable) ==
    /\ simple' = [simple EXCEPT ![t].enabled = enable]
    /\ UNCHANGED <<simple_threads, simple_thread_count, simpleRun, evLast, waitLog, demo>>
    /\ UNCHANGED <<now, cvars, pvars>>

\* sleep_ms(1): get_absolute_time() returns a value 1000 us later
Sleep ==
    /\ now < MaxSleeps * 1000
    /\ now' = now + 1000
    /\ UNCHANGED <<cvars, pvars, dvars>>

\* simple_scheduler.addThread(t), called only while fewer than MaxSimple
\* entries are registered
SimpleAddThread(t) ==
    /\ simple_thread_count < MaxSimple
    /\ IF simple_thread_count < SIMPLE_MAX_THREADS
         THEN /\ simple_threads' = [simple_threads EXCEPT ![simple_thread_count] = t]
              /\ simple_thread_count' = simple_thread_count + 1
              /\ ret' = TRUE
         ELSE /\ ret' = FALSE
              /\ UNCHANGED <<simple_threads, simple_thread_count>>
    /\ UNCHANGED <<simple, simpleRun, evLast, waitLog, demo>>
    /\ UNCHANGED <<events, head, tail, count, op, out, now, clears, accepted, popped,
                   pcCoop, coopEvt, coopPushes, preempted>>
    /\ UNCHANGED pvars

\* simple_scheduler.run()
SimpleRun ==
    /\ LET r == SimpleRunLoop(0, simple_threads, simple_thread_count, simple, now, <<>>) IN
         /\ simple' = r.simple
         /\ simpleRun' = [called |-> TRUE,
                          registered |-> [k \in 1 .. simple_thread_count |->
                                            simple_threads[k - 1]],
                          before |-> simple,
                          executed |-> r.executed]
    /\ UNCHANGED <<simple_threads, simple_thread_count, evLast, waitLog, demo>>
    /\ UNCHANGED <<now, cvars, pvars>>

(***************************************************************************)
(* PT_WAIT_EVENT and PT_WAIT_EVENT_TYPE                                    *)
(***************************************************************************)
\* PT_WAIT_EVENT(this, event)
WaitEvent == [op |-> "wait_event"]
\* PT_WAIT_EVENT_TYPE(this, event, type)
WaitEventType(type) == [op |-> "wait_event_type", type |-> type]

\* the event types posted
PostedTypes == {"GATE_RISING", "GATE_FALLING"}

\* GateInputThread::run: while (true) { PT_WAIT_EVENT_TYPE(this, event,
\* GATE_RISING); handle; PT_THREAD_YIELD(this); }
GateBody == <<WaitEventType("GATE_RISING"), Stmt("set"), Stmt("yield"), Goto(1)>>
\* UIThread::run: while (true) { PT_WAIT_EVENT(this, event); handle;
\* PT_THREAD_YIELD(this); }
UIBody == <<WaitEvent, Stmt("set"), Stmt("yield"), Goto(1)>>
\* while (true) { PT_WAIT_EVENT_TYPE(this, event, GATE_FALLING); handle; }
FallingLoopBody == <<WaitEventType("GATE_FALLING"), Stmt("set"), Goto(1)>>
\* while (true) { PT_WAIT_EVENT_TYPE(this, event, GATE_RISING); handle; }
RisingLoopBody == <<WaitEventType("GATE_RISING"), Stmt("set"), Goto(1)>>

\* a PT_WAIT_EVENT_TYPE without the loop
TypeLoopsNever(e, type) == FALSE

\* PT_WAIT_EVENT_TYPE: while ((event_var).type != event_type)
TypeLoops(e, type) == e.type # type

\* what one invocation of a body that waits for events yields: the status, the
\* marker, the queue, and the events it popped in order, each with whether the
\* body proceeded with it
EventOutcome(status, lc, q, pops) == [status |-> status, lc |-> lc, q |-> q, pops |-> pops]

\* The statements of prog from position i on, the thread's event_queue being
\* the queue q, or null when hasQueue is false.
RECURSIVE RunEventFrom(_, _, _, _, _, _, _)
RunEventFrom(prog, i, jumped, lc, hasQueue, q, pops) ==
    IF i > Len(prog)
      THEN EventOutcome(PT_ENDED, 0, q, pops)
      ELSE
        CASE prog[i].op = "set" ->
               RunEventFrom(prog, i + 1, FALSE, lc, hasQueue, q, pops)
          [] prog[i].op = "yield" ->
               EventOutcome(PT_YIELDED, IF jumped THEN lc ELSE i, q, pops)
          [] prog[i].op = "goto" ->
               RunEventFrom(prog, prog[i].target, FALSE, lc, hasQueue, q, pops)
          [] prog[i].op = "wait_event" ->
               \* PT_WAIT_UNTIL(pt, event_queue && event_queue->pop(event))
               LET lc1 == IF jumped THEN lc ELSE WaitUntilEnter(i, lc) IN
                 IF WaitUntilSuspends(i, hasQueue /\ ~PopRejects(q))
                   THEN EventOutcome(PT_WAITING, lc1, q, pops)
                   ELSE RunEventFrom(prog, i + 1, FALSE, lc1, hasQueue, PopCrit(q),
                                     Append(pops, [event |-> PopEvent(q), kept |-> TRUE]))
          [] prog[i].op = "wait_event_type" ->
               \* do { PT_WAIT_EVENT(pt, event); } while (event.type != type)
               LET lc1 == IF jumped THEN lc ELSE WaitUntilEnter(i, lc) IN
                 IF WaitUntilSuspends(i, hasQueue /\ ~PopRejects(q))
                   THEN EventOutcome(PT_WAITING, lc1, q, pops)
                   ELSE IF TypeLoops(PopEvent(q), prog[i].type)
                          THEN RunEventFrom(prog, i, FALSE, lc1, hasQueue, PopCrit(q),
                                            Append(pops, [event |-> PopEvent(q),
                                                          kept |-> FALSE]))
                          ELSE RunEventFrom(prog, i + 1, FALSE, lc1, hasQueue, PopCrit(q),
                                            Append(pops, [event |-> PopEvent(q),
                                                          kept |-> TRUE]))

\* the positions of prog that carry a case label
EventLabels(prog) ==
    {i \in 1 .. Len(prog) : prog[i].op \in {"wait_event", "wait_event_type", "yield"}}

\* PT_BEGIN ... PT_END of a body that waits for events
RunEventBody(prog, lc, hasQueue, q) ==
    IF lc = 0 THEN RunEventFrom(prog, 1, FALSE, lc, hasQueue, q, <<>>)
    ELSE IF lc \in EventLabels(prog) THEN RunEventFrom(prog, lc, TRUE, lc, hasQueue, q, <<>>)
    ELSE EventOutcome(PT_ENDED, 0, q, <<>>)

\* scheduler.postEvent(type), from the main loop or an interrupt handler while
\* no queue call is in progress; called at most MaxPosts times
PostTyped(type) ==
    /\ pcCoop = "idle"
    /\ now < MaxPosts
    /\ now' = now + 1
    /\ op' = "push"
    /\ LET e == NewEvent(type, 0, now + 1) IN
         IF PushRejects(Queue)
           THEN /\ ret' = FALSE
                /\ UNCHANGED <<events, head, tail, count, accepted>>
           ELSE /\ SetQueue(PushCrit(Queue, e))
                /\ ret' = TRUE
                /\ accepted' = Append(accepted, e)
    /\ UNCHANGED <<out, clears, popped, pcCoop, coopEvt, coopPushes, preempted>>
    /\ UNCHANGED tvars

\* t.execute(), the body of t waiting for events; called while the thread's
\* run counter is below MaxRuns
EventExecute(t) ==
    /\ pcCoop = "idle"
    /\ thr[t].run_count < MaxRuns
    /\ IF ExecuteSkips(thr[t])
         THEN /\ result' = PT_EXITED
              /\ UNCHANGED <<thr, events, head, tail, count, op, ret, out, popped,
                             evLast, waitLog>>
         ELSE LET hasQueue == thr[t].event_queue # "nullptr"
                  o == RunEventBody(body[t], thr[t].lc, hasQueue, Queue)
                  n == Len(o.pops)
              IN
                /\ thr' = [thr EXCEPT ![t] =
                             [@ EXCEPT !.last_run_time = now,
                                       !.lc = o.lc,
                                       !.run_count = @ + 1,
                                       !.active = IF o.status \in Terminal
                                                    THEN FALSE ELSE @]]
                /\ result' = o.status
                /\ SetQueue(o.q)
                /\ popped' = popped \o [k \in 1 .. n |-> o.pops[k].event]
                /\ out' = IF n = 0 THEN out ELSE o.pops[n].event
                \* the last pop() of the invocation, if it made one
                /\ IF o.status = PT_WAITING /\ hasQueue
                     THEN op' = "pop" /\ ret' = FALSE
                     ELSE IF n > 0
                            THEN op' = "pop" /\ ret' = TRUE
                            ELSE UNCHANGED <<op, ret>>
                /\ evLast' = [thread |-> t, entry |-> thr[t].lc, status |-> o.status,
                              accepted |-> [k \in 1 .. Len(SelectSeq(o.pops, LAMBDA p : p.kept))
                                              |-> SelectSeq(o.pops, LAMBDA p : p.kept)[k].event],
                              discarded |-> [k \in 1 .. Len(SelectSeq(o.pops, LAMBDA p : ~p.kept))
                                              |-> SelectSeq(o.pops, LAMBDA p : ~p.kept)[k].event]]
                /\ waitLog' = waitLog \o [k \in 1 .. n |->
                                           [thread |-> t, event |-> o.pops[k].event,
                                            kept |-> o.pops[k].kept]]
    /\ NoPass
    /\ UNCHANGED <<now, clears, accepted, pcCoop, coopEvt, coopPushes, preempted>>
    /\ UNCHANGED <<body, x, threads, thread_count, scheduler_ticks, last, svars>>
    /\ UNCHANGED <<threads2, thread_count2, sem, semLast, semInit>>
    /\ UNCHANGED <<simple, simple_threads, simple_thread_count, simpleRun, demo>>

(***************************************************************************)
(* pt-test-simple.cpp: FastBlinkThread, SlowPulseThread and StatusThread.  *)
(* Their run() functions are switches over a state field.  The timers are  *)
(* not kept: whether the time a state waits for has passed is an input of  *)
(* each invocation; blink_count, pulse_count and report_count are only     *)
(* printed and are left out.                                               *)
(***************************************************************************)
PATTERN_SWITCH_EVENT == "USER_EVENT"

\* the classes of the three thread objects
FastBlinkThread == "FastBlinkThread"
SlowPulseThread == "SlowPulseThread"
StatusThread == "StatusThread"

\* 6 blinks per sequence, 3 sequences; 4 pulses per sequence, 2 sequences
FastBlinks == 6
FastSequences == 3
SlowPulses == 4
SlowSequences == 2

\* event_queue->push(e), the value returned dropped; nothing without a queue
DemoPush(hasQueue, q, e) ==
    IF hasQueue /\ ~PushRejects(q) THEN PushCrit(q, e) ELSE q

\* checkForResumeEvent: data = 0 means switch to fast
ResumeAccepts(e) == e.type = PATTERN_SWITCH_EVENT /\ e.data = 0

\* a checkForActivationEvent that looks for data = 0
ActivationAcceptsZero(e) == e.type = PATTERN_SWITCH_EVENT /\ e.data = 0

\* checkForActivationEvent: data = 1 means switch to slow
ActivationAccepts(e) == e.type = PATTERN_SWITCH_EVENT /\ e.data = 1

\* checkForResumeEvent(): while (event_queue->pop(event)) if (...) return true;
\* return false.  The value returned, the queue and the events popped, each
\* with whether it ended the loop
RECURSIVE CheckForResumeEvent(_, _, _)
CheckForResumeEvent(hasQueue, q, pops) ==
    IF ~hasQueue \/ PopRejects(q)
      THEN [found |-> FALSE, q |-> q, pops |-> pops]
      ELSE IF ResumeAccepts(PopEvent(q))
             THEN [found |-> TRUE, q |-> PopCrit(q),
                   pops |-> Append(pops, [event |-> PopEvent(q), kept |-> TRUE])]
             ELSE CheckForResumeEvent(hasQueue, PopCrit(q),
                                      Append(pops, [event |-> PopEvent(q), kept |-> FALSE]))

\* checkForActivationEvent(): the same loop
RECURSIVE CheckForActivationEvent(_, _, _)
CheckForActivationEvent(hasQueue, q, pops) ==
    IF ~hasQueue \/ PopRejects(q)
      THEN [found |-> FALSE, q |-> q, pops |-> pops]
      ELSE IF ActivationAccepts(PopEvent(q))
             THEN [found |-> TRUE, q |-> PopCrit(q),
                   pops |-> Append(pops, [event |-> PopEvent(q), kept |-> TRUE])]
             ELSE CheckForActivationEvent(hasQueue, PopCrit(q),
                                          Append(pops, [event |-> PopEvent(q),
                                                        kept |-> FALSE]))

\* what one run() of a demo thread yields: the status, the thread's fields,
\* the queue, the events popped and the events pushed
DemoOutcome(f, q, pops, pushed) ==
    [status |-> PT_WAITING, fields |-> f, q |-> q, pops |-> pops, pushed |-> pushed]

\* FastBlinkThread::run() on fields f at time time; elapsed: the time the
\* state waits for has passed
FastRun(f, hasQueue, q, elapsed, time) ==
    CASE f.state = "INIT" ->
           DemoOutcome([f EXCEPT !.state = "BLINK_ON", !.current_blink = 0], q, <<>>, <<>>)
      [] f.state = "BLINK_ON" ->
           IF elapsed
             THEN DemoOutcome([f EXCEPT !.state = "BLINK_OFF"], q, <<>>, <<>>)
             ELSE DemoOutcome(f, q, <<>>, <<>>)
      [] f.state = "BLINK_OFF" ->
           IF elapsed
             THEN IF f.current_blink + 1 >= FastBlinks
                    THEN DemoOutcome([f EXCEPT !.state = "SEQUENCE_PAUSE",
                                               !.current_blink = @ + 1], q, <<>>, <<>>)
                    ELSE DemoOutcome([f EXCEPT !.state = "BLINK_ON",
                                               !.current_blink = @ + 1], q, <<>>, <<>>)
             ELSE DemoOutcome(f, q, <<>>, <<>>)
      [] f.state = "SEQUENCE_PAUSE" ->
           IF elapsed
             THEN IF f.sequence_count + 1 >= FastSequences
                    THEN LET e == NewEvent(PATTERN_SWITCH_EVENT, 1, time) IN
                           DemoOutcome([f EXCEPT !.state = "WAIT_FOR_RESUME",
                                                 !.current_blink = 0,
                                                 !.sequence_count = 0],
                                       DemoPush(hasQueue, q, e), <<>>,
                                       IF hasQueue /\ ~PushRejects(q) THEN <<e>> ELSE <<>>)
                    ELSE DemoOutcome([f EXCEPT !.state = "BLINK_ON",
                                               !.current_blink = 0,
                                               !.sequence_count = @ + 1], q, <<>>, <<>>)
             ELSE DemoOutcome(f, q, <<>>, <<>>)
      [] f.state = "WAIT_FOR_RESUME" ->
           LET c == CheckForResumeEvent(hasQueue, q, <<>>) IN
             IF c.found
               THEN DemoOutcome([f EXCEPT !.state = "BLINK_ON"], c.q, c.pops, <<>>)
               ELSE DemoOutcome(f, c.q, c.pops, <<>>)

\* SlowPulseThread::run()
SlowRun(f, hasQueue, q, elapsed, time) ==
    CASE f.state = "WAITING" ->
           LET c == CheckForActivationEvent(hasQueue, q, <<>>) IN
             IF c.found
               THEN DemoOutcome([f EXCEPT !.state = "PULSE_ON", !.current_pulse = 0],
                                c.q, c.pops, <<>>)
               ELSE DemoOutcome(f, c.q, c.pops, <<>>)
      [] f.state = "PULSE_ON" ->
           IF elapsed
             THEN DemoOutcome([f EXCEPT !.state = "PULSE_OFF"], q, <<>>, <<>>)
             ELSE DemoOutcome(f, q, <<>>, <<>>)
      [] f.state = "PULSE_OFF" ->
           IF elapsed
             THEN IF f.current_pulse + 1 >= SlowPulses
                    THEN DemoOutcome([f EXCEPT !.state = "SEQUENCE_PAUSE",
                                               !.current_pulse = @ + 1], q, <<>>, <<>>)
                    ELSE DemoOutcome([f EXCEPT !.state = "PULSE_ON",
                                               !.current_pulse = @ + 1], q, <<>>, <<>>)
             ELSE DemoOutcome(f, q, <<>>, <<>>)
      [] f.state = "SEQUENCE_PAUSE" ->
           IF elapsed
             THEN IF f.sequence_count + 1 >= SlowSequences
                    THEN LET e == NewEvent(PATTERN_SWITCH_EVENT, 0, time) IN
                           DemoOutcome([f EXCEPT !.state = "WAITING",
                                                 !.current_pulse = 0,
                                                 !.sequence_count = 0],
                                       DemoPush(hasQueue, q, e), <<>>,
                                       IF hasQueue /\ ~PushRejects(q) THEN <<e>> ELSE <<>>)
                    ELSE DemoOutcome([f EXCEPT !.state = "PULSE_ON",
                                               !.current_pulse = 0,
                                               !.sequence_count = @ + 1], q, <<>>, <<>>)
             ELSE DemoOutcome(f, q, <<>>, <<>>)

\* runOnce() over the demo threads: one iteration of the loop, at index i.  s
\* holds the scheduler's list, the thread objects, the demo threads' fields,
\* the queue and the events popped and pushed so far in this pass
DemoLoopBody(i, s, cls, fastElapsed, slowElapsed) ==
    LET t == s.threads[i] IN
      IF ~Dispatches(t, s.thr)
        THEN [i |-> SizeInc(i), s |-> s]
        ELSE
          LET hasQueue == s.thr[t].event_queue # "nullptr"
              o == CASE cls[t] = FastBlinkThread ->
                          FastRun(s.demo.fast, hasQueue, s.q, fastElapsed, s.now)
                     [] cls[t] = SlowPulseThread ->
                          SlowRun(s.demo.slow, hasQueue, s.q, slowElapsed, s.now)
                     [] OTHER -> \* StatusThread::run(): return PT_WAITING
                          DemoOutcome(<<>>, s.q, <<>>, <<>>)
              s1 == [s EXCEPT
                       !.thr[t] = [@ EXCEPT !.last_run_time = s.now,
                                            !.run_count = @ + 1,
                                            !.active = IF o.status \in Terminal
                                                         THEN FALSE ELSE @],
                       !.demo = CASE cls[t] = FastBlinkThread -> [@ EXCEPT !.fast = o.fields]
                                  [] cls[t] = SlowPulseThread -> [@ EXCEPT !.slow = o.fields]
                                  [] OTHER -> @,
                       !.q = o.q,
                       !.pops = @ \o [k \in 1 .. Len(o.pops) |->
                                        [thread |-> t, event |-> o.pops[k].event,
                                         kept |-> o.pops[k].kept]],
                       !.pushed = @ \o o.pushed]
          IN
            IF o.status \in Terminal
              THEN LET r == RemoveThreadOf(s1.threads, s1.thread_count, t) IN
                     [i |-> SizeInc(SizeDec(i)),
                      s |-> [s1 EXCEPT !.threads = r.threads,
                                       !.thread_count = r.thread_count]]
              ELSE [i |-> SizeInc(i), s |-> s1]

\* runOnce() over the demo threads: the loop from index i on; r is the value
\* of the iteration at index i
RECURSIVE DemoLoop(_, _, _, _, _)
DemoLoop(i, s, cls, fastElapsed, slowElapsed) ==
    IF ~SizeLess(i, s.thread_count)
      THEN s
      ELSE CHOOSE after \in {DemoLoop(r.i, r.s, cls, fastElapsed, slowElapsed) :
                               r \in {DemoLoopBody(i, s, cls, fastElapsed, slowElapsed)}} :
             TRUE

\* one iteration of main's loop: scheduler.runOnce(), a moment after the
\* iteration before; called at most MaxDemoPasses times
DemoPass ==
    /\ pcCoop = "idle"
    /\ scheduler_ticks < MaxDemoPasses
    /\ scheduler_ticks' = Uint32Inc(scheduler_ticks)
    /\ now' = now + 1
    /\ \E fastElapsed, slowElapsed \in BOOLEAN :
       \E s0 \in {[threads |-> threads, thread_count |-> thread_count, thr |-> thr,
                    demo |-> demo, q |-> Queue, now |-> now + 1,
                    pops |-> <<>>, pushed |-> <<>>]} :
       \E s \in {DemoLoop(0, s0, body, fastElapsed, slowElapsed)} :
         LET n == Len(s.pops) IN
           /\ threads' = s.threads
           /\ thread_count' = s.thread_count
           /\ thr' = s.thr
           /\ demo' = s.demo
           /\ SetQueue(s.q)
           /\ accepted' = accepted \o s.pushed
           /\ popped' = popped \o [k \in 1 .. n |-> s.pops[k].event]
           /\ waitLog' = waitLog \o s.pops
           /\ out' = IF n = 0 THEN out ELSE s.pops[n].event
    /\ NoPass
    /\ UNCHANGED <<op, ret, clears, pcCoop, coopEvt, coopPushes, preempted>>
    /\ UNCHANGED <<body, result, x, last, svars>>
    /\ UNCHANGED <<threads2, thread_count2, sem, semLast, semInit>>
    /\ UNCHANGED <<simple, simple_threads, simple_thread_count, simpleRun, evLast>>

\* the queue alone: the threads stay as constructed
Init ==
    /\ InitQueue
    /\ InitThreads
    /\ body = [t \in Threads |-> EndBody]

\* one thread object driven directly: it runs any of the bodies
InitDirect ==
    /\ InitQueue
    /\ InitThreads
    /\ body \in {f \in [Threads -> Bodies] : \A t \in Threads \ DirectThreads : f[t] = EndBody}

\* a scheduler and the threads it is given: each runs any of the bodies
InitSched ==
    /\ InitQueue
    /\ InitThreads
    /\ body \in {f \in [Threads -> Bodies] :
                   /\ f["t1"] = WaitBody
                   /\ f["t2"] = ExitBody
                   /\ f["t3"] = EndBody}

\* a scheduler and three threads: each runs any of the bodies
InitPass ==
    /\ InitQueue
    /\ InitThreads
    /\ body \in [Threads -> Bodies]

\* a scheduler and two threads, the body of the first calling stop() on the
\* second
InitStop ==
    /\ InitQueue
    /\ InitThreads
    /\ body \in {f \in [Threads -> Bodies \cup {StopThreadBody}] :
                   /\ f["t1"] = StopThreadBody
                   /\ f["t2"] = WaitBody
                   /\ f["t3"] = EndBody}

\* one thread object more than the scheduler's list holds, in the order in
\* which the caller registers them
CapacityThreads ==
    <<"t1", "t2", "t3", "t4", "t5", "t6", "t7", "t8", "t9", "t10", "t11", "t12",
      "t13", "t14", "t15", "t16", "t17">>

\* the thread objects not registered, in that order
Unregistered ==
    LET isFree(t) == \A k \in 0 .. (thread_count - 1) : threads[k] # t
    IN SelectSeq(CapacityThreads, isFree)

\* the thread objects the caller may register next: the first one not
\* registered, or the last one of all at any time
NextToRegister ==
    {Head(Unregistered)} \cup
        {t \in {CapacityThreads[Len(CapacityThreads)]} :
            \E k \in 1 .. Len(Unregistered) : Unregistered[k] = t}

\* an empty scheduler and MAX_THREADS + 1 thread objects
InitCapacity ==
    /\ InitQueue
    /\ body = [k \in 1 .. Len(CapacityThreads) |-> EndBody]
    /\ thr = [t \in {CapacityThreads[k] : k \in 1 .. Len(CapacityThreads)} |-> NewThread]
    /\ last = [t \in {CapacityThreads[k] : k \in 1 .. Len(CapacityThreads)} |-> NoCall]
    /\ result = -1
    /\ x = FALSE
    /\ threads = [j \in ThreadSlots |-> NullThread]
    /\ thread_count = 0
    /\ scheduler_ticks = 0
    /\ passStart = <<>>
    /\ passLog = <<>>
    /\ running = FALSE
    /\ pcRun = "idle"
    /\ idx = 0
    /\ stopCall = "none"
    /\ InitExtra

\* a scheduler whose run() is called, and two threads: the first may call
\* scheduler.stop() from its body
InitRun ==
    /\ InitQueue
    /\ InitThreads
    /\ body \in {f \in [Threads -> Bodies \cup {StopSchedBody}] :
                   /\ f["t1"] \in {StopSchedBody, EndBody}
                   /\ f["t2"] = WaitBody
                   /\ f["t3"] = EndBody}

\* a scheduler whose run() is called, and two threads whose bodies end or exit
InitRunFair ==
    /\ InitQueue
    /\ InitThreads
    /\ body \in {f \in [Threads -> {EndBody, ExitBody}] : f["t3"] = EndBody}

\* push, pop and clear from a single context
NextQueue == Push \/ Pop \/ Clear
SpecQueue == Init /\ [][NextQueue]_vars

\* interrupt handlers push, the cooperative context pops
NextIsrPop == IsrPush \/ PopTest \/ PopCritical
SpecIsrPop == Init /\ [][NextIsrPop]_vars

\* interrupt handlers push, the cooperative context pushes and pops
NextAnyContext == IsrPush \/ PushTest \/ PushCritical \/ PopTest \/ PopCritical
SpecAnyContext == Init /\ [][NextAnyContext]_vars

\* thread objects driven directly: execute(), init(), stop()
NextThread ==
    \/ Tick
    \/ SetX
    \/ \E t \in DirectThreads : Execute(t, MaxRuns)
    \/ \E t \in DirectThreads : ThreadInit(t)
    \/ \E t \in DirectThreads : ThreadStop(t)
SpecThread == InitDirect /\ [][NextThread]_vars

\* a scheduler and two threads, every operation in any order
NextSched ==
    \/ SetX
    \/ \E t \in SchedThreads : Execute(t, MaxSchedRuns)
    \/ \E t \in SchedThreads : ThreadInit(t)
    \/ \E t \in SchedThreads : ThreadStop(t)
    \/ \E t \in SchedThreads \cup {NullThread} : AddThread(t)
    \/ \E t \in SchedThreads : RemoveThread(t)
    \/ RunOnce
SpecSched == InitSched /\ [][NextSched]_vars

\* passes of a scheduler over three threads that are registered, and stopped,
\* in any order
NextPass ==
    \/ SetX
    \/ \E t \in Threads : ThreadStop(t)
    \/ \E t \in Threads : AddThread(t)
    \/ RunOnce
SpecPass == InitPass /\ [][NextPass]_vars

\* a scheduler and two threads, one of which stops the other from its body
NextStop ==
    \/ SetX
    \/ \E t \in SchedThreads : Execute(t, MaxSchedRuns)
    \/ \E t \in SchedThreads : ThreadInit(t)
    \/ \E t \in SchedThreads : ThreadStop(t)
    \/ \E t \in SchedThreads : AddThread(t)
    \/ RunOnce
SpecStop == InitStop /\ [][NextStop]_vars

\* addThread() with thread objects not yet registered, and with nullptr, until
\* and beyond the capacity of the list
NextCapacity ==
    \/ \E t \in NextToRegister : AddThreadCall(t)
    \/ AddThreadCall(NullThread)
SpecCapacity == InitCapacity /\ [][NextCapacity]_vars

\* threads are registered, then run() is called; the condition changes between
\* passes, and interrupt handlers call stop() at any time
NextRun ==
    \/ pcRun = "idle" /\ \E t \in SchedThreads : AddThread(t)
    \/ pcRun # "pass" /\ SetX
    \/ SchedStop
    \/ RunCall
    \/ RunTest
    \/ RunDispatch
    \/ RunPassEnd
SpecRun == InitRun /\ [][NextRun]_vars

\* the steps run() takes once it has been called
RunStep == RunTest \/ RunDispatch \/ RunPassEnd

\* threads are registered, then run() is called and nothing calls stop(); a
\* run() that has been called goes on
NextRunFair ==
    \/ pcRun = "idle" /\ \E t \in SchedThreads : AddThread(t)
    \/ RunCall
    \/ RunStep
SpecRunFair == InitRunFair /\ [][NextRunFair]_vars /\ WF_vars(RunStep)

\* a scheduler and three threads whose bodies yield in a loop
InitRounds ==
    /\ InitQueue
    /\ InitThreads
    /\ body = [t \in Threads |-> LoopYieldBody]

\* threads are registered, then runOnce() is called as many times as threads
\* are registered
NextRounds ==
    \/ scheduler_ticks = 0 /\ \E t \in Threads : AddThread(t)
    \/ scheduler_ticks < thread_count /\ RunOnceCall
SpecRounds == InitRounds /\ [][NextRounds]_vars

\* a scheduler, a thread that waits for a condition and two threads that yield
\* in a loop, end or exit
InitWaiting ==
    /\ InitQueue
    /\ InitThreads
    /\ body \in {f \in [Threads -> Bodies \cup {LoopYieldBody}] :
                   /\ f["t1"] = WaitBody
                   /\ f["t2"] \in {LoopYieldBody, EndBody}
                   /\ f["t3"] \in {LoopYieldBody, ExitBody}}

\* threads are registered and passes are made in any order; the condition
\* stays false
NextWaiting ==
    \/ \E t \in Threads : AddThread(t)
    \/ scheduler_ticks < MaxRuns /\ RunOnceCall
SpecWaiting == InitWaiting /\ [][NextWaiting]_vars

\* two schedulers and one thread, every operation in any order
NextTwoScheds ==
    \/ \E t \in DirectThreads : Execute(t, MaxSchedRuns)
    \/ \E t \in DirectThreads : ThreadInit(t)
    \/ \E t \in DirectThreads : ThreadStop(t)
    \/ \E t \in DirectThreads : AddThread(t)
    \/ \E t \in DirectThreads : AddThread2(t)
    \/ \E t \in DirectThreads : RemoveThread(t)
    \/ RunOnce
SpecTwoScheds == InitSched /\ [][NextTwoScheds]_vars

\* a scheduler that has made no pass yet, or one that has made
\* 2^32 - MaxPasses passes while no thread was registered, and two threads
InitTicks ==
    /\ InitQueue
    /\ body \in {f \in [Threads -> Bodies] :
                   /\ f["t1"] = WaitBody
                   /\ f["t2"] = ExitBody
                   /\ f["t3"] = EndBody}
    /\ thr = [t \in Threads |-> NewThread]
    /\ result = -1
    /\ x = FALSE
    /\ threads = [j \in ThreadSlots |-> NullThread]
    /\ thread_count = 0
    /\ scheduler_ticks \in {0, -MaxPasses}
    /\ last = [t \in Threads |-> NoCall]
    /\ passStart = <<>>
    /\ passLog = <<>>
    /\ running = FALSE
    /\ pcRun = "idle"
    /\ idx = 0
    /\ stopCall = "none"
    /\ InitExtra

\* the operations of the scheduler in any order, and stop() on the threads;
\* runOnce() is called until the tick counter stands at MaxPasses
NextTicks ==
    \/ \E t \in SchedThreads : ThreadStop(t)
    \/ \E t \in SchedThreads : AddThread(t)
    \/ \E t \in SchedThreads : RemoveThread(t)
    \/ PostEvent
    \/ SchedStop
    \/ scheduler_ticks # MaxPasses /\ RunOnceCall
SpecTicks == InitTicks /\ [][NextTicks]_vars

\* three threads that share a semaphore initialised with PT_SEM_INIT(&s, 0)
\* or PT_SEM_INIT(&s, 1)
InitSem ==
    /\ InitQueue
    /\ body \in {f \in [Threads -> {ConsumerBody, TakeTwoBody, ProducerBody, MutexBody}] :
                   /\ f["t1"] \in {ConsumerBody, TakeTwoBody}
                   /\ f["t2"] = ProducerBody
                   /\ f["t3"] = MutexBody}
    /\ thr = [t \in Threads |-> NewThread]
    /\ result = -1
    /\ x = FALSE
    /\ threads = [j \in ThreadSlots |-> NullThread]
    /\ thread_count = 0
    /\ scheduler_ticks = 0
    /\ last = [t \in Threads |-> NoCall]
    /\ passStart = <<>>
    /\ passLog = <<>>
    /\ running = FALSE
    /\ pcRun = "idle"
    /\ idx = 0
    /\ stopCall = "none"
    /\ threads2 = [j \in ThreadSlots |-> NullThread]
    /\ thread_count2 = 0
    /\ sem \in {0, 1}
    /\ semLast = NoSemCall
    /\ semInit = sem
    /\ InitMore

\* the threads are executed, and restarted with init(), in any order
NextSem ==
    \/ \E t \in Threads : SemExecute(t)
    \/ \E t \in Threads : ThreadInit(t)
SpecSem == InitSem /\ [][NextSem]_vars

\* a scheduler and three threads; the body of t2 calls removeThread() on t1
InitRemove ==
    /\ InitQueue
    /\ InitThreads
    /\ body \in {f \in [Threads -> Bodies \cup {RemoverBody, LoopYieldBody}] :
                   /\ f["t1"] \in {WaitBody, LoopYieldBody}
                   /\ f["t2"] = RemoverBody
                   /\ f["t3"] = LoopYieldBody}

\* threads that are not registered are registered, in any order, and a pass is
\* made; the condition changes at any time
NextRemove ==
    \/ SetX
    \/ \E t \in Threads : (\A k \in 0 .. (thread_count - 1) : threads[k] # t) /\ AddThread(t)
    \/ RunOnce
SpecRemove == InitRemove /\ [][NextRemove]_vars

\* a scheduler whose run() is called, a thread that ends at once and a thread
\* that waits for a condition that stays false
InitInactive ==
    /\ InitQueue
    /\ InitThreads
    /\ body \in {f \in [Threads -> Bodies] :
                   /\ f["t1"] = EndBody
                   /\ f["t2"] = WaitBody
                   /\ f["t3"] = EndBody}

\* threads are registered before run() is called and after it has returned;
\* between the passes of run() threads are stopped and removed, and stop() is
\* called on the scheduler at any time
NextInactive ==
    \/ pcRun \in {"idle", "returned"} /\ \E t \in SchedThreads : AddThread(t)
    \/ pcRun # "pass" /\ \E t \in SchedThreads : ThreadStop(t)
    \/ pcRun # "pass" /\ \E t \in SchedThreads : RemoveThread(t)
    \/ SchedStop
    \/ RunCall
    \/ RunTest
    \/ RunDispatch
    \/ RunPassEnd
SpecInactive == InitInactive /\ [][NextInactive]_vars

\* three threads that bracket a critical section, in which they wait for the
\* condition, with PT_SEM_WAIT and PT_SEM_SIGNAL on a semaphore initialised
\* with PT_SEM_INIT(&s, 1) or PT_SEM_INIT(&s, 2)
InitMutex ==
    /\ InitQueue
    /\ body = [t \in Threads |-> CriticalBody]
    /\ thr = [t \in Threads |-> NewThread]
    /\ result = -1
    /\ x = FALSE
    /\ threads = [j \in ThreadSlots |-> NullThread]
    /\ thread_count = 0
    /\ scheduler_ticks = 0
    /\ last = [t \in Threads |-> NoCall]
    /\ passStart = <<>>
    /\ passLog = <<>>
    /\ running = FALSE
    /\ pcRun = "idle"
    /\ idx = 0
    /\ stopCall = "none"
    /\ threads2 = [j \in ThreadSlots |-> NullThread]
    /\ thread_count2 = 0
    /\ sem \in {1, 2}
    /\ semLast = NoSemCall
    /\ semInit = sem
    /\ InitMore

\* the threads are executed in any order while the condition changes; a thread
\* that has ended is restarted with init()
NextMutex ==
    \/ SetX
    \/ \E t \in Threads : SemExecute(t)
    \/ \E t \in Threads : ~thr[t].active /\ ThreadInit(t)
SpecMutex == InitMutex /\ [][NextMutex]_vars

\* simple threads with a simple scheduler: the threads are enabled and
\* disabled, given intervals of 0 and 1 ms and registered in any order, null
\* included, while time passes and run() is called
NextSimple ==
    \/ \E t \in SimpleThreads, ms \in {0, 1} : SetInterval(t, ms)
    \/ \E t \in SimpleThreads, enable \in BOOLEAN : SetEnabled(t, enable)
    \/ Sleep
    \/ \E t \in SimpleThreads \cup {NullThread} : SimpleAddThread(t)
    \/ SimpleRun
SpecSimple == Init /\ [][NextSimple]_vars

\* the bodies of two threads that wait for events: GateInputThread and
\* UIThread, or two loops that wait for events of a type
EventBodies ==
    {<<GateBody, UIBody>>, <<RisingLoopBody, FallingLoopBody>>,
     <<RisingLoopBody, RisingLoopBody>>}

\* two threads that wait for events: t1 has been added to the scheduler, t2
\* has been added after it or not yet; an added thread has the scheduler's
\* queue, the other none
InitEvents ==
    /\ InitQueue
    /\ \E b \in EventBodies :
         body = [t \in Threads |-> CASE t = "t1" -> b[1] [] t = "t2" -> b[2]
                                     [] OTHER -> EndBody]
    /\ thread_count \in {1, 2}
    /\ threads = [j \in ThreadSlots |-> CASE j = 0 -> "t1"
                                          [] j = 1 /\ thread_count = 2 -> "t2"
                                          [] OTHER -> NullThread]
    /\ thr = [t \in Threads |->
                IF \E j \in 0 .. (thread_count - 1) : threads[j] = t
                  THEN [NewThread EXCEPT !.event_queue = "global_event_queue"]
                  ELSE NewThread]
    /\ result = -1
    /\ x = FALSE
    /\ scheduler_ticks = 0
    /\ last = [t \in Threads |-> NoCall]
    /\ passStart = <<>>
    /\ passLog = <<>>
    /\ running = FALSE
    /\ pcRun = "idle"
    /\ idx = 0
    /\ stopCall = "none"
    /\ InitExtra

\* events of two types are posted while the two threads are executed in any
\* order
NextEvents ==
    \/ \E type \in PostedTypes : PostTyped(type)
    \/ \E t \in SchedThreads : EventExecute(t)
SpecEvents == InitEvents /\ [][NextEvents]_vars

\* pt-test-simple after main has added fast_thread, slow_thread and
\* status_thread, in that order, to the scheduler
InitDemo ==
    /\ InitQueue
    /\ body = [t \in Threads |-> CASE t = "t1" -> FastBlinkThread
                                   [] t = "t2" -> SlowPulseThread
                                   [] OTHER -> StatusThread]
    /\ thr = [t \in Threads |-> [NewThread EXCEPT !.event_queue = "global_event_queue"]]
    /\ result = -1
    /\ x = FALSE
    /\ threads = [j \in ThreadSlots |-> CASE j = 0 -> "t1" [] j = 1 -> "t2"
                                          [] j = 2 -> "t3" [] OTHER -> NullThread]
    /\ thread_count = 3
    /\ scheduler_ticks = 0
    /\ last = [t \in Threads |-> NoCall]
    /\ passStart = <<>>
    /\ passLog = <<>>
    /\ running = FALSE
    /\ pcRun = "idle"
    /\ idx = 0
    /\ stopCall = "none"
    /\ InitExtra

\* main's loop
NextDemo == DemoPass
SpecDemo == InitDemo /\ [][NextDemo]_vars

(***************************************************************************)
(* Properties                                                              *)
(***************************************************************************)
\* popped is an initial part of accepted
IsPrefix(p, a) == Len(p) <= Len(a) /\ \A i \in 1 .. Len(p) : p[i] = a[i]

\* the events accepted and not yet popped stand in the buffer from tail on, in
\* the order in which they were accepted, and count is their number
UnreadInBuffer ==
    /\ count = Len(accepted) - Len(popped)
    /\ \A k \in 1 .. (Len(accepted) - Len(popped)) :
         events[(tail + k - 1) % MAX_EVENTS] = accepted[Len(popped) + k]

\* C1: under any sequence of push, pop and clear calls from one context,
\* 0 <= count <= MAX_EVENTS in every reachable state.
C1_CountInRange == count >= 0 /\ count <= MAX_EVENTS

\* a full queue that has been cleared, refilled, popped from and filled again
C1_Witness == count = MAX_EVENTS /\ clears > 0 /\ Len(popped) > 0

\* C2: the events handed out by successful pops are an initial part of the
\* events accepted by successful pushes, in the same order, each once; the
\* accepted events not yet popped are all still in the buffer, in order.
C2_Fifo == IsPrefix(popped, accepted) /\ UnreadInBuffer

\* a successful pop after head has wrapped around the end of the buffer while
\* tail has not
C2_Witness ==
    /\ op = "pop" /\ ret = TRUE
    /\ Len(accepted) > MAX_EVENTS
    /\ head < tail
    /\ count > 0

\* C9: push on a full queue returns false and leaves head, tail, count and
\* every slot unchanged; the oldest unread event is still the next one popped.
C9_PushOnFull ==
    [][(Push /\ count = MAX_EVENTS) =>
          /\ ret' = FALSE
          /\ events' = events /\ head' = head /\ tail' = tail /\ count' = count
          /\ events'[tail'] = accepted[Len(popped) + 1]
          /\ accepted' = accepted]_vars

\* a push has just been rejected by a full queue whose tail is not at slot 0
C9_Witness ==
    /\ op = "push" /\ ret = FALSE
    /\ count = MAX_EVENTS
    /\ tail > 0

\* C10: pop on an empty queue returns false and leaves head, tail, count, the
\* buffer and the caller's event unchanged.
C10_PopOnEmpty ==
    [][(Pop /\ count = 0) =>
          /\ ret' = FALSE
          /\ events' = events /\ head' = head /\ tail' = tail /\ count' = count
          /\ out' = out]_vars

\* a pop has just been rejected by a queue that was used and emptied before; the
\* caller's event still holds the event popped last
C10_Witness ==
    /\ op = "pop" /\ ret = FALSE
    /\ count = 0
    /\ popped # <<>>
    /\ out = popped[Len(popped)]

\* C3: while interrupt handlers push and the cooperative context pops, also
\* when a push comes between the count == 0 test of pop and its
\* interrupts-disabled region, count stays in [0, MAX_EVENTS] and the events
\* popped are the accepted events, each once, in the order accepted.
C3_IsrPushCoopPop ==
    /\ count >= 0 /\ count <= MAX_EVENTS
    /\ IsPrefix(popped, accepted)
    /\ UnreadInBuffer

\* a pop that was preempted by a push after its test has returned an event,
\* with head wrapped around the end of the buffer
C3_Witness ==
    /\ pcCoop = "idle" /\ op = "pop" /\ ret = TRUE
    /\ preempted
    /\ Len(accepted) > MAX_EVENTS

\* C4: while the cooperative context and interrupt handlers both push, count
\* never exceeds MAX_EVENTS and no accepted event is overwritten before it is
\* popped.
C4_PushFromAnyContext ==
    /\ count <= MAX_EVENTS
    /\ \A k \in 1 .. (Len(accepted) - Len(popped)) :
         events[(tail + k - 1) % MAX_EVENTS] = accepted[Len(popped) + k]

\* the positions of the PT_YIELD statements of a body
YieldLabels(prog) == {i \in 1 .. Len(prog) : prog[i].op = "yield"}

\* C5: an invocation that resumes a thread suspended at a PT_YIELD continues
\* with the statement after the PT_YIELD and executes it.
C5_YieldOneShot ==
    \A t \in Threads :
        (last[t] # NoCall /\ last[t].entry \in YieldLabels(body[t])) =>
            /\ last[t].ran # <<>>
            /\ Head(last[t].ran) = last[t].entry + 1

\* C6: for the body 'A; PT_WAIT_UNTIL(x); B' (A at position 1, B at position
\* 3): an invocation from the entry point with x false runs A only and returns
\* PT_WAITING with the marker at the wait; an invocation resumed at the wait
\* with x false runs nothing and returns PT_WAITING; an invocation resumed at
\* the wait with x true runs B and not A.
C6_WaitUntil ==
    \A t \in Threads :
        (body[t] = WaitBody /\ last[t] # NoCall) =>
            /\ (last[t].entry = 0 /\ ~last[t].cond) =>
                   (last[t].ran = <<1>> /\ last[t].status = PT_WAITING)
            /\ (last[t].entry = 2 /\ ~last[t].cond) =>
                   (last[t].ran = <<>> /\ last[t].status = PT_WAITING)
            /\ (last[t].entry = 2 /\ last[t].cond) =>
                   (last[t].ran = <<3>> /\ last[t].status = PT_ENDED)
            /\ last[t].entry \in {0, 2}
            /\ (last[t].status = PT_WAITING /\ thr[t].active) => thr[t].lc = 2

\* the third execute() of the body found x true after two that found it false:
\* it resumed at the wait and ran B
C6_Witness ==
    /\ body["t1"] = WaitBody
    /\ thr["t1"].run_count = 3
    /\ last["t1"] = [entry |-> 2, cond |-> TRUE, status |-> PT_ENDED, ran |-> <<3>>]

\* C7: after the body of a thread returned PT_ENDED or PT_EXITED, no step
\* invokes the body again (its run counter, marker and record of the last
\* invocation stay as they are) unless the step is init() on that thread.
C7_TerminalNotInvoked ==
    [][\A t \in Threads :
         last[t].status \in Terminal =>
            \/ last'[t] = NoCall /\ thr'[t] = ThreadInitOf(thr[t])
            \/ /\ last'[t] = last[t]
               /\ thr'[t].run_count = thr[t].run_count
               /\ thr'[t].lc = thr[t].lc]_vars

\* a runOnce() pass has just gone over a registered thread whose body had
\* returned a terminal status before the pass
C7_Witness ==
    \E t \in Threads :
        /\ last[t].status \in Terminal
        /\ \E k \in 1 .. Len(passStart) : passStart[k] = <<t, FALSE>>
        /\ \E k \in 0 .. (thread_count - 1) : threads[k] = t

\* seq without the later occurrences of an element
RECURSIVE FirstOccurrences(_)
FirstOccurrences(seq) ==
    IF seq = <<>> THEN <<>>
    ELSE LET front == FirstOccurrences(SubSeq(seq, 1, Len(seq) - 1))
             e == seq[Len(seq)]
         IN IF \E k \in 1 .. Len(front) : front[k] = e THEN front ELSE Append(front, e)

\* the last pass: the threads registered at its start, the threads among them
\* that were active, the threads invoked, and the threads that returned a
\* terminal status
PassRegistered == [k \in 1 .. Len(passStart) |-> passStart[k][1]]
PassActive == {passStart[k][1] : k \in {j \in 1 .. Len(passStart) : passStart[j][2]}}
PassInvoked == [k \in 1 .. Len(passLog) |-> passLog[k][1]]
PassRetired == {passLog[k][1] : k \in {j \in 1 .. Len(passLog) : passLog[j][2] \in Terminal}}

\* what C8 says of one pass
PassInvokesOnce ==
    LET isActive(t) == t \in PassActive
        stays(t) == t \notin PassRetired
    IN /\ PassInvoked = SelectSeq(FirstOccurrences(PassRegistered), isActive)
       /\ Registered(threads, thread_count) = SelectSeq(PassRegistered, stays)

\* C8: a runOnce() pass invokes every thread that is registered and active at
\* its start exactly once, in registration order; after the pass the threads
\* that returned a terminal status are no longer registered and the others are,
\* in their previous order.
C8_PassInvokesOnce == passStart # <<>> => PassInvokesOnce

\* the same for the passes over a list in which no thread is registered twice
C8_WithoutDuplicates ==
    (passStart # <<>> /\ FirstOccurrences(PassRegistered) = PassRegistered) => PassInvokesOnce

\* C11: execute() on an inactive thread whose body has returned PT_ENDED or
\* PT_EXITED returns that status (PT_ENDED if the body ended, PT_EXITED if it
\* exited) and changes nothing: the body is not invoked, and the run counter,
\* the last-run timestamp and the marker stay as they are.
C11_InactiveExecute ==
    [][\A t \in DirectThreads :
         (Execute(t, MaxRuns) /\ ~thr[t].active /\ last[t].status \in Terminal) =>
            /\ result' = last[t].status
            /\ last' = last
            /\ thr' = thr]_vars

C13_InitRestarts ==
    [][\A t \in DirectThreads :
         /\ ThreadInit(t) =>
               /\ thr'[t].run_count = 0
               /\ thr'[t].active
               /\ thr'[t].lc = PT_INIT
         /\ (Execute(t, MaxRuns) /\ thr[t].active /\ thr[t].run_count = 0) =>
               /\ last'[t].entry = PT_INIT
               /\ body[t][1].op = "set" =>
                     (last'[t].ran # <<>> /\ Head(last'[t].ran) = 1)]_vars

\* a thread whose body suspends at a PT_YIELD and never ends has run before,
\* was then given init(), and its next execute() started at the first statement
C13_Witness ==
    /\ body["t1"] = YieldBody
    /\ thr["t1"].last_run_time = MaxTime
    /\ thr["t1"].run_count = 1
    /\ last["t1"].entry = PT_INIT
    /\ last["t1"].ran = <<1>>
    /\ thr["t1"].lc = 2

\* in the last pass no body was invoked after the body of another thread had
\* called stop() on its thread
PassRespectsStops ==
    \A k \in 1 .. Len(passLog) :
        \A j \in (k + 1) .. Len(passLog) : passLog[j][1] \notin passLog[k][3]

\* C14: stop() on a thread clears its active flag and changes nothing else
\* (marker, run counter, last-run timestamp, queue binding, the other threads,
\* the scheduler's list and count); no step other than init() invokes the body
\* of a thread that is inactive; and within a pass no body is invoked after
\* another body of that pass called stop() on its thread.
C14_StopFrame ==
    [][/\ \A t \in SchedThreads :
            ThreadStop(t) =>
               /\ ~thr'[t].active
               /\ thr'[t].lc = thr[t].lc
               /\ thr'[t].run_count = thr[t].run_count
               /\ thr'[t].last_run_time = thr[t].last_run_time
               /\ thr'[t].event_queue = thr[t].event_queue
               /\ \A u \in Threads \ {t} : thr'[u] = thr[u]
               /\ threads' = threads
               /\ thread_count' = thread_count
       /\ \A t \in Threads :
            (~thr[t].active /\ ~ThreadInit(t)) =>
               /\ last'[t] = last[t]
               /\ ~thr'[t].active
               /\ thr'[t].lc = thr[t].lc
               /\ thr'[t].run_count = thr[t].run_count
               /\ thr'[t].last_run_time = thr[t].last_run_time
       /\ PassRespectsStops']_vars

\* a pass over the list t1, t2, both active at its start: the body of t1 called
\* stop() on t2, and the body of t2 was not invoked
C14_Witness ==
    /\ PassRegistered = <<"t1", "t2">>
    /\ PassActive = {"t1", "t2"}
    /\ passLog = << <<"t1", PT_WAITING, {"t2"}>> >>
    /\ ~thr["t2"].active
    /\ thr["t2"].run_count = 0

\* C15: addThread() returns false and changes neither the list, the count nor
\* any thread's queue binding when the list holds MAX_THREADS entries or the
\* pointer is null; otherwise, with a thread not yet registered, it returns
\* true and appends the thread, so that from an empty scheduler MAX_THREADS
\* calls succeed, the next one fails and the count stays at MAX_THREADS.
C15_AddThreadCapacity ==
    [][/\ \A t \in NextToRegister \cup {NullThread} :
            AddThreadCall(t) =>
               IF thread_count >= 16 \/ t = NullThread
                 THEN /\ ret' = FALSE
                      /\ threads' = threads
                      /\ thread_count' = thread_count
                      /\ thr' = thr
                 ELSE /\ ret' = TRUE
                      /\ thread_count' = thread_count + 1
                      /\ Registered(threads', thread_count') =
                            Append(Registered(threads, thread_count), t)
                      /\ thr'[t].event_queue = "global_event_queue"
       /\ thread_count' <= 16]_vars

\* sixteen distinct threads are registered, and the call with the seventeenth
\* has just returned false
C15_Witness ==
    /\ thread_count = 16
    /\ ret = FALSE
    /\ Len(Unregistered) = 1
    /\ thr[Unregistered[1]].event_queue = "nullptr"
    /\ \A k \in 0 .. 15 : thr[threads[k]].event_queue = "global_event_queue"

\* C16: removeThread(t) on a list that contains t returns true, decreases the
\* count by exactly 1 and leaves the list without t, the other threads in
\* their previous order; on a list that does not contain t it returns false
\* and leaves the list and the count as they are.
C16_RemoveThread ==
    [][\A t \in SchedThreads :
         RemoveThread(t) =>
            LET reg == Registered(threads, thread_count)
                isOther(u) == u # t
            IN IF \E k \in 1 .. Len(reg) : reg[k] = t
                 THEN /\ ret' = TRUE
                      /\ thread_count' = thread_count - 1
                      /\ Registered(threads', thread_count') = SelectSeq(reg, isOther)
                 ELSE /\ ret' = FALSE
                      /\ threads' = threads
                      /\ thread_count' = thread_count]_vars

\* C17: no thread appears more than once among the registered threads.
C17_NoDuplicates ==
    \A i, j \in 0 .. (thread_count - 1) : i # j => threads[i] # threads[j]

\* C18: when run() has returned, stop() was called after this run() was
\* entered, or no thread is registered.
C18_RunReturns == pcRun = "returned" => (stopCall # "none" \/ thread_count = 0)

\* run() has returned after an interrupt handler called stop() between two
\* passes, with a thread still registered
C18_Witness ==
    /\ pcRun = "returned"
    /\ stopCall = "test"
    /\ thread_count > 0
    /\ scheduler_ticks > 0

\* C19: when run() is called with every registered thread active, bodies that
\* all end or exit, and no call of stop(), run() returns, and no thread is
\* registered when it does.
C19_RunTerminates ==
    (pcRun = "test" /\ \A k \in 0 .. (thread_count - 1) : thr[threads[k]].active)
        ~> (pcRun = "returned" /\ thread_count = 0 /\ stopCall = "none")

\* every thread that was registered and active at the start of the last pass
\* has been invoked in it
PassDispatchedAll == \A t \in PassActive : \E k \in 1 .. Len(passLog) : passLog[k][1] = t

\* C20: when stop() is called on the scheduler during a pass of run(), by a
\* body or by an interrupt handler, the pass still invokes every thread that
\* was registered and active at its start, the loop condition that follows
\* the pass makes run() return, and no pass is started after it.
C20_StopDuringPass ==
    [][/\ (stopCall' = "pass" /\ pcRun = "pass" /\ pcRun' = "test") => PassDispatchedAll'
       /\ (stopCall = "pass" /\ pcRun = "test") => pcRun' # "pass"
       /\ (stopCall = "pass" /\ RunTest) => pcRun' = "returned"
       /\ stopCall' = "pass" => ~running']_vars

\* run() has returned with both threads still registered: in its last pass the
\* body of t1 called stop() on the scheduler, and t2 was invoked after that
C20_Witness ==
    /\ pcRun = "returned"
    /\ stopCall = "pass"
    /\ thread_count = 2
    /\ Len(passLog) = 2
    /\ passLog[1] = <<"t1", PT_WAITING, {Scheduler}>>
    /\ passLog[2][1] = "t2"

\* what C21 says of the state after a pass: the pass invoked every registered
\* thread once and each one yielded; every thread has been invoked once per
\* pass so far, and all are still registered and active
YieldRound ==
    /\ PassInvoked = FirstOccurrences(PassRegistered)
    /\ \A k \in 1 .. Len(passLog) : passLog[k][2] = PT_YIELDED
    /\ Registered(threads, thread_count) = PassRegistered
    /\ \A k \in 0 .. (thread_count - 1) :
         /\ thr[threads[k]].active
         /\ thr[threads[k]].run_count = scheduler_ticks

\* C21: with N registered active threads whose bodies yield in a loop, each of
\* N consecutive runOnce() calls invokes every thread exactly once: after the
\* k-th call every thread has been invoked k times, N times after the last,
\* and all threads are still registered and active.
C21_YieldRounds == passStart # <<>> => YieldRound

\* the same for the lists in which no thread is registered twice
C21_WithoutDuplicates ==
    (passStart # <<>> /\ FirstOccurrences(PassRegistered) = PassRegistered) => YieldRound

\* three threads, each registered once, after three passes
C21_RoundsDone ==
    /\ passStart # <<>>
    /\ thread_count = 3
    /\ scheduler_ticks = 3
    /\ FirstOccurrences(PassRegistered) = PassRegistered

\* the statuses the last pass got from thread t
PassStatuses(t) == {passLog[k][2] : k \in {j \in 1 .. Len(passLog) : passLog[j][1] = t}}

\* C22: a thread suspended at a PT_WAIT_UNTIL whose condition stays false is
\* invoked in every pass and returns PT_WAITING, stays registered and active
\* and executes no statement after the PT_WAIT_UNTIL; every other thread that
\* is registered and active at the start of a pass is invoked in it, once if it
\* is registered once.
C22_WaitForever ==
    passStart # <<>> =>
      /\ \A t \in PassActive :
           body[t] = WaitBody =>
             /\ PassStatuses(t) = {PT_WAITING}
             /\ \E k \in 0 .. (thread_count - 1) : threads[k] = t
             /\ thr[t].active
             /\ thr[t].lc = 2
             /\ \A k \in 1 .. Len(last[t].ran) : last[t].ran[k] < 2
      /\ \A u \in PassActive : PassStatuses(u) # {}
      /\ FirstOccurrences(PassRegistered) = PassRegistered =>
           PassInvoked = SelectSeq(PassRegistered, LAMBDA u : u \in PassActive)

\* after three passes the waiting thread t1 has returned PT_WAITING three
\* times, and t2, registered after it, has yielded three times
C22_Witness ==
    /\ passStart # <<>>
    /\ scheduler_ticks = 3
    /\ PassInvoked = <<"t1", "t2">>
    /\ PassStatuses("t1") = {PT_WAITING}
    /\ PassStatuses("t2") = {PT_YIELDED}
    /\ thr["t1"].run_count = 3
    /\ thr["t2"].run_count = 3
    /\ ~x

\* C23: once a thread's event-queue reference has been assigned, by the first
\* successful addThread(), no operation changes it.
C23_QueueAssignedOnce ==
    [][\A t \in Threads :
         thr[t].event_queue # "nullptr" => thr'[t].event_queue = thr[t].event_queue]_vars

\* C24: every runOnce() call increases the tick counter by exactly 1, whatever
\* the pass does with the threads; no other operation of the scheduler changes
\* it, and it never decreases.
C24_TicksIncrease ==
    [][/\ RunOnceCall =>
            /\ scheduler_ticks' = scheduler_ticks + 1
            /\ Uint32Less(scheduler_ticks, scheduler_ticks')
       /\ scheduler_ticks' # scheduler_ticks => RunOnceCall
       /\ ~Uint32Less(scheduler_ticks', scheduler_ticks)]_vars

\* the same below the largest value of the counter
C24_BelowMax ==
    [][scheduler_ticks # -1 =>
         /\ RunOnceCall =>
              /\ scheduler_ticks' = scheduler_ticks + 1
              /\ Uint32Less(scheduler_ticks, scheduler_ticks')
         /\ scheduler_ticks' # scheduler_ticks => RunOnceCall
         /\ ~Uint32Less(scheduler_ticks', scheduler_ticks)]_vars

\* C25: getThreadCount() returns the number of registered threads that are
\* active.
C25_ActiveThreadCount ==
    getThreadCount = Cardinality({k \in 0 .. (thread_count - 1) : thr[threads[k]].active})

\* C27: PT_SEM_WAIT returns PT_WAITING and leaves the counter as it is while
\* the counter is 0, and with a counter above 0 goes on in the same invocation
\* after taking exactly 1; PT_SEM_SIGNAL adds exactly 1; the counter is never
\* decremented at 0.
C27_Semaphore ==
    /\ sem >= 0
    /\ semLast.status # -1 =>
         /\ \A k \in 1 .. Len(semLast.taken) : semLast.taken[k] # 0
         /\ sem = semLast.before - Len(semLast.taken) + semLast.given
         /\ semLast.status = PT_WAITING => sem = 0
         /\ (semLast.status = PT_WAITING /\ semLast.taken = <<>> /\ semLast.given = 0) =>
              sem = semLast.before
         /\ (semLast.entry # 0 /\ semLast.before # 0) =>
              semLast.taken # <<>> /\ semLast.taken[1] = semLast.before

\* a thread blocked in PT_SEM_WAIT at counter 0 was invoked again after a
\* PT_SEM_SIGNAL, took the semaphore in that invocation and ended
C27_Witness ==
    /\ semLast.entry = 1
    /\ semLast.before = 1
    /\ semLast.taken = <<1>>
    /\ semLast.status = PT_ENDED
    /\ sem = 0

\* C28: a body written with PT_THREAD_WAIT_WHILE(cond) can be built and, from
\* every marker and for every value of the condition, returns the same status,
\* leaves the same marker and executes the same statements as the body
\* written with PT_THREAD_WAIT_UNTIL(!cond).
C28_WaitWhile ==
    \A t \in DirectThreads :
      LET twin == WaitWhileTwin(body[t]) IN
        /\ Builds(twin)
        /\ RunBody(twin, thr[t].lc, x) = RunBody(body[t], thr[t].lc, x)

\* the number of invocations of thread t in the last pass
PassInvocations(t) == Cardinality({k \in 1 .. Len(passLog) : passLog[k][1] = t})

\* C29: also when a body calls removeThread() on another thread during a
\* pass, every thread that is registered and active at the start of the pass
\* and still registered and active at its end has been invoked exactly once in
\* the pass.
C29_RemoveDuringPass ==
    passStart # <<>> =>
      \A t \in PassActive :
        (thr[t].active /\ \E k \in 0 .. (thread_count - 1) : threads[k] = t) =>
          PassInvocations(t) = 1

\* the number of entries of the scheduler's list arr that hold thread t
Entries(arr, cnt, t) == Cardinality({k \in 0 .. (cnt - 1) : arr[k] = t})

\* C30: when the turn of an inactive thread comes in a pass of run(), the
\* pass goes on to the next entry and changes neither the list nor the thread,
\* and does not invoke its body; no step of a pass takes an entry of an
\* inactive thread from the list; and while such a thread is registered and
\* stop() has not been called, the loop condition of run() starts another pass.
C30_InactiveStays ==
    [][/\ (RunDispatch /\ ~thr[threads[idx]].active) =>
            /\ threads' = threads
            /\ thread_count' = thread_count
            /\ thr' = thr
            /\ last' = last
            /\ passLog' = passLog
            /\ idx' = idx + 1
       /\ \A t \in SchedThreads :
            (pcRun = "pass" /\ ~thr[t].active) =>
              Entries(threads', thread_count', t) = Entries(threads, thread_count, t)
       /\ (RunTest /\ running
             /\ \E k \in 0 .. (thread_count - 1) : ~thr[threads[k]].active) =>
            pcRun' = "pass"]_vars

\* run() is at its loop condition after two passes, not stopped; the only
\* registered thread has been stopped before its body was ever invoked
C30_Witness ==
    /\ pcRun = "test"
    /\ running
    /\ scheduler_ticks = 2
    /\ thread_count = 1
    /\ ~thr[threads[0]].active
    /\ thr[threads[0]].run_count = 0
    /\ last[threads[0]] = NoCall

\* the slots that hold the unread events
UnreadSlots == {(tail + k) % MAX_EVENTS : k \in 0 .. (count - 1)}

\* C34: under push, pop and clear calls from one context head and tail are
\* below MAX_EVENTS and head = (tail + count) mod MAX_EVENTS; the slot the
\* next push writes holds no unread event unless the queue is full.
C34_RingIndices ==
    /\ head \in Slots
    /\ tail \in Slots
    /\ head = (tail + count) % MAX_EVENTS
    /\ count # MAX_EVENTS => head \notin UnreadSlots

\* a push has been accepted by a queue whose head has wrapped around the end of
\* the buffer and stands below tail, with free slots left
C34_Witness ==
    /\ op = "push" /\ ret = TRUE
    /\ head < tail
    /\ count > 1
    /\ count < MAX_EVENTS

\* head, tail and count are what they are in a queue that was constructed
\* empty and then took the pushes and pops made since the last clear(), and
\* the unread events stand in the buffer
FreshLike ==
    /\ head = Len(accepted) % MAX_EVENTS
    /\ tail = Len(popped) % MAX_EVENTS
    /\ IsPrefix(popped, accepted)
    /\ UnreadInBuffer

\* C35: clear() leaves the queue empty: size() is 0, isEmpty() is true and a
\* pop that follows fails; from then on the queue does what a newly
\* constructed one does: a push succeeds while fewer than MAX_EVENTS events
\* are unread, and a pop hands out the oldest unread event.
C35_ClearIsFresh ==
    [][/\ Clear => (size' = 0 /\ isEmpty' /\ head' = 0 /\ tail' = 0)
       /\ (op = "clear" /\ Pop) => (ret' = FALSE /\ out' = out)
       /\ clears' > 0 => FreshLike'
       /\ (clears > 0 /\ Push /\ Len(accepted) - Len(popped) < MAX_EVENTS) =>
            (ret' = TRUE /\ Len(accepted') = Len(accepted) + 1)
       /\ (clears > 0 /\ Pop /\ Len(popped) < Len(accepted)) =>
            (ret' = TRUE /\ out' = accepted[Len(popped) + 1])]_vars

\* a queue that was cleared after it had been used has since accepted
\* MAX_EVENTS events and handed all of them out
C35_Witness ==
    /\ clears > 0
    /\ now > MAX_EVENTS
    /\ Len(accepted) = MAX_EVENTS
    /\ Len(popped) = MAX_EVENTS
    /\ count = 0

\* the dispatch step made the body return a terminal status
DispatchRetires ==
    /\ RunDispatch
    /\ Len(passLog') = Len(passLog) + 1
    /\ passLog'[Len(passLog')][2] \in Terminal

\* C37: when the thread at index 0 returns a terminal status in a pass, i--
\* takes the index from 0 to the largest size_t and i++ back to 0: the list
\* has moved down by one place, the thread that stood at index 1 is the one
\* the pass turns to next, and the index with which the list is read is never
\* beyond the number of registered threads.
C37_IndexWraps ==
    [][/\ (DispatchRetires /\ idx = 0) =>
            /\ SizeDec(idx) = -1
            /\ SizeInc(SizeDec(idx)) = 0
            /\ idx' = 0
            /\ thread_count' = thread_count - 1
            /\ \A k \in 0 .. (thread_count' - 1) : threads'[k] = threads[k + 1]
       /\ pcRun' = "pass" => (idx' >= 0 /\ idx' <= thread_count')
       /\ RunDispatch => (idx >= 0 /\ idx < MAX_THREADS)]_vars

\* in one pass t1, at index 0, has ended and t2, registered behind it, has
\* been invoked after it
C37_Witness ==
    /\ pcRun = "pass"
    /\ Len(passStart) = 2
    /\ passStart[1][1] = "t1"
    /\ Len(passLog) = 2
    /\ passLog[1] = <<"t1", PT_ENDED, {}>>
    /\ passLog[2][1] = "t2"
    /\ thread_count = 1
    /\ threads[0] = "t2"

\* the threads that are between their PT_SEM_WAIT and their PT_SEM_SIGNAL:
\* suspended at the PT_WAIT_UNTIL of the critical section
InCritical == {t \in Threads : thr[t].active /\ body[t] = CriticalBody /\ thr[t].lc = 2}

\* C31: with a semaphore initialised to n >= 1, at most n threads are between
\* their PT_SEM_WAIT and their PT_SEM_SIGNAL, other threads being executed
\* while a thread is suspended inside its critical section; the counter is n
\* less the number of those threads.
C31_AtMostN ==
    /\ Cardinality(InCritical) <= semInit
    /\ sem = semInit - Cardinality(InCritical)

\* two threads are suspended inside the critical section of a semaphore
\* initialised to 2, and the third has been refused at its PT_SEM_WAIT
C31_Witness ==
    /\ semInit = 2
    /\ sem = 0
    /\ Cardinality(InCritical) = 2
    /\ \E t \in Threads : thr[t].active /\ thr[t].lc = 1 /\ thr[t].run_count > 0

(***************************************************************************)
(* C36                                                                     *)
(***************************************************************************)
\* how often the last run() executed thread t
SimpleExecutions(t) ==
    Cardinality({k \in 1 .. Len(simpleRun.executed) : simpleRun.executed[k] = t})

\* the threads that were registered, enabled and had interval 0 when the last
\* run() started, in registration order
SimpleDue ==
    SelectSeq(simpleRun.registered,
              LAMBDA t : /\ t # NullThread
                         /\ simpleRun.before[t].enabled
                         /\ simpleRun.before[t].interval_ms = 0)

\* what C36 says of the last run(): no disabled thread was executed, and every
\* enabled thread with interval 0 once, in registration order
SimpleRunAsClaimed ==
    /\ \A t \in SimpleThreads : ~simpleRun.before[t].enabled => SimpleExecutions(t) = 0
    /\ \A k \in 1 .. Len(SimpleDue) : SimpleExecutions(SimpleDue[k]) = 1
    /\ SelectSeq(simpleRun.executed,
                 LAMBDA t : simpleRun.before[t].interval_ms = 0) = SimpleDue

\* C36: SimpleScheduler::run() never executes a thread whose enabled flag is
\* false, whatever its interval and however much time has passed, and it
\* executes every enabled thread with interval 0 exactly once, in registration
\* order.
C36_SimpleRun == simpleRun.called => SimpleRunAsClaimed

\* the same for the lists in which no thread is registered twice
C36_WithoutDuplicates ==
    (/\ simpleRun.called
     /\ \A j, k \in 1 .. Len(simpleRun.registered) :
          (j # k /\ simpleRun.registered[j] # NullThread)
            => simpleRun.registered[j] # simpleRun.registered[k])
      => SimpleRunAsClaimed

\* the part of C36 about disabled threads, on every list
C36_DisabledNeverRuns ==
    simpleRun.called =>
      \A t \in SimpleThreads : ~simpleRun.before[t].enabled => SimpleExecutions(t) = 0

\* a run() at a time when the interval of a registered disabled thread had
\* passed, and a run() that executed two threads registered second and first
C36_DisabledDue ==
    /\ simpleRun.called
    /\ \E k \in 1 .. Len(simpleRun.registered) :
         LET t == simpleRun.registered[k] IN
           /\ t # NullThread
           /\ ~simpleRun.before[t].enabled
           /\ simpleRun.before[t].interval_ms = 1
           /\ now - simpleRun.before[t].last_time >= 1000

C36_BothInOrder ==
    /\ simpleRun.called
    /\ simpleRun.registered = <<"s2", "s1">>
    /\ simpleRun.executed = <<"s2", "s1">>

(***************************************************************************)
(* C32                                                                     *)
(***************************************************************************)
\* the types prog waits for with PT_WAIT_EVENT_TYPE, and whether it waits for
\* events of any type with PT_WAIT_EVENT
WaitsFor(prog) == {prog[i].type : i \in {j \in 1 .. Len(prog) : prog[j].op = "wait_event_type"}}
WaitsForAny(prog) == \E i \in 1 .. Len(prog) : prog[i].op = "wait_event"

\* C32: a thread waiting with PT_WAIT_EVENT_TYPE(T) proceeds only with a popped
\* event of type T; every event of another type that it pops is removed for
\* good: it is not in the queue any more and no thread ever proceeds with it;
\* and of the events pushed, each is popped by at most one wait, so that no
\* event is delivered to two threads or twice.
C32_WaitEventType ==
    /\ \A k \in 1 .. Len(waitLog) :
         LET w == waitLog[k] IN
           /\ ~WaitsForAny(body[w.thread]) =>
                (w.kept <=> w.event.type \in WaitsFor(body[w.thread]))
           /\ \E a \in 1 .. Len(accepted) : accepted[a] = w.event
           /\ \A s \in UnreadSlots : events[s] # w.event
    /\ \A j, k \in 1 .. Len(waitLog) : j # k => waitLog[j].event # waitLog[k].event

\* t1, waiting for GATE_RISING, has dropped a GATE_FALLING event and proceeded
\* with a GATE_RISING event, and t2, waiting on the same queue, has proceeded
\* with another event
C32_Witness ==
    /\ ~WaitsForAny(body["t1"])
    /\ \E i, j, k \in 1 .. Len(waitLog) :
         /\ waitLog[i].thread = "t1" /\ ~waitLog[i].kept
         /\ waitLog[i].event.type = "GATE_FALLING"
         /\ waitLog[j].thread = "t1" /\ waitLog[j].kept
         /\ waitLog[k].thread = "t2" /\ waitLog[k].kept

(***************************************************************************)
(* C33                                                                     *)
(***************************************************************************)
\* the thread is in a state that drives the LED, or about to enter one
FastGenerating == demo.fast.state \in {"INIT", "BLINK_ON", "BLINK_OFF", "SEQUENCE_PAUSE"}
SlowGenerating == demo.slow.state \in {"PULSE_ON", "PULSE_OFF", "SEQUENCE_PAUSE"}

\* the queue holds an unread switch event, for the fast thread (data 0) or the
\* slow thread (data 1)
HoldsSwitchEvent ==
    \E s \in UnreadSlots : events[s].type = PATTERN_SWITCH_EVENT /\ events[s].data \in {0, 1}

\* C33: in pt-test-simple, between any two passes of main's loop, the fast and
\* the slow thread are not both generating their pattern; when both are in
\* their waiting state the queue holds a switch event for one of them; and
\* every event a thread has popped was the switch event meant for it, none
\* was popped and dropped by the other thread.
C33_HandOff ==
    /\ ~(FastGenerating /\ SlowGenerating)
    /\ (demo.fast.state = "WAIT_FOR_RESUME" /\ demo.slow.state = "WAITING") => HoldsSwitchEvent
    /\ \A k \in 1 .. Len(waitLog) : waitLog[k].kept

\* both hand-offs have happened: the slow thread has run its sequences and
\* waits again, and the fast thread has resumed on the slow thread's event
C33_Witness ==
    /\ demo.fast.state = "BLINK_ON"
    /\ demo.slow.state = "WAITING"
    /\ Len(waitLog) = 2
    /\ waitLog[1].thread = "t2" /\ waitLog[1].event.data = 1
    /\ waitLog[2].thread = "t1" /\ waitLog[2].event.data = 0

\* both threads wait and the event for the fast thread is in the queue
C33_BothWaiting ==
    /\ demo.fast.state = "WAIT_FOR_RESUME"
    /\ demo.slow.state = "WAITING"
    /\ HoldsSwitchEvent

====
